---------------------------- MODULE Spec2Model ----------------------------
(***************************************************************************)
(* infura-extract: the block cache (memory, sharded disk, optional zstd),  *)
(* the retrying remote fetcher, the BigInt codec and the range loop of     *)
(* infura-extract.js (src/unnamed/part_006).                               *)
(***************************************************************************)
EXTENDS Integers, Sequences, FiniteSets, TLC

(***************************************************************************)
(* Bounds of the model.                                                    *)
(***************************************************************************)
\* Block numbers of the model are 0..MaxBlock.
MaxBlock == 2
\* The highest block number asked for where invocations follow one another
\* on the same cache directory, and where getBlock is called freely.
MaxCachedBlock == 1
\* getBlock calls one run makes in the specification that calls it freely.
MaxCalls == 2

\* Transactions of a block record the codec is applied to.
MaxTxs == 2

\* The write calls one fs.writeFileSync needs for its data.
ConcChunks == 2

Blocks == 0..MaxBlock
CachedBlocks == 0..MaxCachedBlock
\* Numbers a range argument may name: one more than the highest head.
ArgNums == 0..(MaxBlock + 1)

(***************************************************************************)
(* Decimal text: Number/BigInt toString, BigInt(string), parseInt.         *)
(* A string is a sequence of one-character strings.                        *)
(***************************************************************************)
DigitChars == <<"0", "1", "2", "3", "4", "5", "6", "7", "8", "9">>

IsDigit(c) == \E d \in 1..10 : DigitChars[d] = c

DigitValue(c) == (CHOOSE d \in 1..10 : DigitChars[d] = c) - 1

RECURSIVE NatToStr(_)
NatToStr(n) ==
    IF n < 10 THEN <<DigitChars[n + 1]>>
    ELSE NatToStr(n \div 10) \o <<DigitChars[(n % 10) + 1]>>

\* BigInt.prototype.toString() / Number.prototype.toString() of an integer.
IntToStr(n) == IF n < 0 THEN <<"-">> \o NatToStr(0 - n) ELSE NatToStr(n)

RECURSIVE DigitsToNat(_)
DigitsToNat(cs) ==
    IF cs = <<>> THEN 0
    ELSE 10 * DigitsToNat(SubSeq(cs, 1, Len(cs) - 1)) + DigitValue(cs[Len(cs)])

AllDigits(cs) == \A k \in 1..Len(cs) : IsDigit(cs[k])

\* The decimal strings BigInt(string) accepts (the empty string is 0n).
IsDecimal(cs) ==
    \/ AllDigits(cs)
    \/ Len(cs) > 1 /\ cs[1] = "-" /\ AllDigits(Tail(cs))

DecimalToInt(cs) ==
    IF cs # <<>> /\ cs[1] = "-" THEN 0 - DigitsToNat(Tail(cs))
    ELSE DigitsToNat(cs)

(***************************************************************************)
(* JavaScript values, tagged by their typeof.                              *)
(***************************************************************************)
JsBigInt(n) == [jt |-> "bigint", int |-> n]
JsNumber(n) == [jt |-> "number", num |-> n]
JsString(cs) == [jt |-> "string", chars |-> cs]
JsNull == [jt |-> "null"]
JsUndefined == [jt |-> "undefined"]
JsObject(ks, vs) == [jt |-> "object", keys |-> ks, vals |-> vs]
JsArray(xs) == [jt |-> "array", items |-> xs]
\* The outcome of an expression that throws.
JsThrow == [jt |-> "throw"]

\* value.key of an object (undefined when the property is missing).
GetProp(v, key) ==
    IF v.jt = "object" /\ \E k \in 1..Len(v.keys) : v.keys[k] = key
    THEN v.vals[CHOOSE k \in 1..Len(v.keys) : v.keys[k] = key]
    ELSE JsUndefined

\* ToBoolean: what `if (v)` and `v && ...` test.
Truthy(v) ==
    CASE v.jt \in {"null", "undefined", "throw"} -> FALSE
      [] v.jt = "string" -> v.chars # <<>>
      [] v.jt = "number" -> v.num # 0
      [] v.jt = "bigint" -> v.int # 0
      [] OTHER -> TRUE

\* BigInt(v), as the reviver calls it on value.value.
ToBigInt(v) ==
    CASE v.jt = "string" -> IF IsDecimal(v.chars) THEN JsBigInt(DecimalToInt(v.chars))
                            ELSE JsThrow
      [] v.jt = "number" -> JsBigInt(v.num)
      [] v.jt = "bigint" -> v
      [] OTHER -> JsThrow

(***************************************************************************)
(* The codec: replacer and reviver, and JSON.stringify / JSON.parse over   *)
(* the token text of a JSON document.                                      *)
(***************************************************************************)
BigIntTag == <<"B", "i", "g", "I", "n", "t">>

\* A replacer that writes a BigInt as a plain JSON number.
replacerAsNumber(value) ==
    IF value.jt = "bigint" THEN JsNumber(value.int) ELSE value

\* function replacer(key, value)
replacer(value) ==
    IF value.jt = "bigint"
    THEN JsObject(<<"type", "value">>,
                  <<JsString(BigIntTag), JsString(IntToStr(value.int))>>)
    ELSE value

\* function reviver(key, value)
reviver(value) ==
    IF Truthy(value) /\ value.jt = "object"
       /\ GetProp(value, "type") = JsString(BigIntTag)
    THEN ToBigInt(GetProp(value, "value"))
    ELSE value

\* The tokens of a JSON text.
Punct(p) == [tk |-> p]
TokString(cs) == [tk |-> "string", text |-> cs]
TokNumber(cs) == [tk |-> "number", text |-> cs]
\* Where JSON.stringify throws (a BigInt the replacer left in place).
TokThrow == [tk |-> "throw"]

RECURSIVE Stringify(_)
RECURSIVE StringifyItems(_, _)
RECURSIVE StringifyMembers(_, _, _)

\* JSON.stringify(value, replacer): the replacer sees every value first.
Stringify(value) ==
    LET v == replacer(value) IN
    CASE v.jt = "object" ->
            <<Punct("{")>> \o StringifyMembers(v.keys, v.vals, 1) \o <<Punct("}")>>
      [] v.jt = "array" ->
            <<Punct("[")>> \o StringifyItems(v.items, 1) \o <<Punct("]")>>
      [] v.jt = "string" -> <<TokString(v.chars)>>
      [] v.jt = "number" -> <<TokNumber(IntToStr(v.num))>>
      [] v.jt = "null" -> <<Punct("null")>>
      [] OTHER -> <<TokThrow>>

StringifyItems(xs, k) ==
    IF k > Len(xs) THEN <<>>
    ELSE (IF k > 1 THEN <<Punct(",")>> ELSE <<>>)
         \o Stringify(xs[k]) \o StringifyItems(xs, k + 1)

StringifyMembers(ks, vs, k) ==
    IF k > Len(ks) THEN <<>>
    ELSE (IF k > 1 THEN <<Punct(",")>> ELSE <<>>)
         \o <<TokString(<<ks[k]>>), Punct(":")>>
         \o Stringify(vs[k]) \o StringifyMembers(ks, vs, k + 1)

StringifyThrows(toks) == \E k \in 1..Len(toks) : toks[k] = TokThrow

\* A parse result: the value (JsThrow on a syntax error) and the tokens left.
Parsed(v, rest) == [val |-> v, rest |-> rest]

RECURSIVE ParseValue(_)
RECURSIVE ParseItems(_, _)
RECURSIVE ParseMembers(_, _, _)

\* One JSON value off the front of toks, the reviver applied bottom-up.
ParseValue(toks) ==
    IF toks = <<>> THEN Parsed(JsThrow, <<>>)
    ELSE LET t == toks[1]
             rest == Tail(toks)
         IN CASE t.tk = "string" -> Parsed(reviver(JsString(t.text)), rest)
              [] t.tk = "number" ->
                    IF IsDecimal(t.text) /\ t.text # <<>>
                    THEN Parsed(reviver(JsNumber(DecimalToInt(t.text))), rest)
                    ELSE Parsed(JsThrow, rest)
              [] t.tk = "null" -> Parsed(reviver(JsNull), rest)
              [] t.tk = "[" ->
                    IF rest # <<>> /\ rest[1] = Punct("]")
                    THEN Parsed(reviver(JsArray(<<>>)), Tail(rest))
                    ELSE ParseItems(rest, <<>>)
              [] t.tk = "{" ->
                    IF rest # <<>> /\ rest[1] = Punct("}")
                    THEN Parsed(reviver(JsObject(<<>>, <<>>)), Tail(rest))
                    ELSE ParseMembers(rest, <<>>, <<>>)
              [] OTHER -> Parsed(JsThrow, rest)

ParseItems(toks, acc) ==
    LET p == ParseValue(toks) IN
    IF p.val = JsThrow \/ p.rest = <<>> THEN Parsed(JsThrow, <<>>)
    ELSE IF p.rest[1] = Punct(",")
         THEN ParseItems(Tail(p.rest), Append(acc, p.val))
    ELSE IF p.rest[1] = Punct("]")
         THEN Parsed(reviver(JsArray(Append(acc, p.val))), Tail(p.rest))
    ELSE Parsed(JsThrow, <<>>)

ParseMembers(toks, ks, vs) ==
    IF Len(toks) < 3 \/ toks[1].tk # "string" \/ toks[2] # Punct(":")
       \/ Len(toks[1].text) # 1
    THEN Parsed(JsThrow, <<>>)
    ELSE LET p == ParseValue(SubSeq(toks, 3, Len(toks))) IN
         IF p.val = JsThrow \/ p.rest = <<>> THEN Parsed(JsThrow, <<>>)
         ELSE IF p.rest[1] = Punct(",")
              THEN ParseMembers(Tail(p.rest), Append(ks, toks[1].text[1]),
                                Append(vs, p.val))
         ELSE IF p.rest[1] = Punct("}")
              THEN Parsed(reviver(JsObject(Append(ks, toks[1].text[1]),
                                           Append(vs, p.val))), Tail(p.rest))
         ELSE Parsed(JsThrow, <<>>)

\* JSON.parse(text, reviver): JsThrow when the text is no JSON document or
\* the reviver throws.
JsonParse(toks) ==
    LET p == ParseValue(toks) IN
    IF p.rest = <<>> THEN p.val ELSE JsThrow

(***************************************************************************)
(* The provider: the block a successful eth_getBlockByNumber(n, true)      *)
(* returns, and the shapes of its failures.                                *)
(***************************************************************************)
Tx(from, to, value) ==
    JsObject(<<"from", "to", "value">>, <<from, to, JsBigInt(value)>>)

BlockOf(n, txs) ==
    JsObject(<<"number", "transactions">>, <<JsBigInt(n), JsArray(txs)>>)

AddrA == JsString(<<"a">>)
AddrB == JsString(<<"b">>)
AddrC == JsString(<<"c">>)

\* Block n of the chain: one transfer; no transactions; a contract creation
\* (no recipient) followed by a transfer that repeats an earlier address.
Chain(n) ==
    CASE n % 3 = 0 -> BlockOf(n, <<Tx(AddrA, AddrB, 10)>>)
      [] n % 3 = 1 -> BlockOf(n, <<>>)
      [] OTHER -> BlockOf(n, <<Tx(AddrC, JsNull, 0), Tx(AddrA, AddrC, 1234567)>>)

\* What one web3.eth.getBlock call does: it resolves with the block, with
\* null, with an object that has no transactions, or it rejects with an
\* error object that may or may not carry a statusCode and a message.
RespBlock == [kind |-> "block", statusCode |-> 0, hasMessage |-> FALSE]
RespNull == [kind |-> "null", statusCode |-> 0, hasMessage |-> FALSE]
RespNoTx == [kind |-> "notx", statusCode |-> 0, hasMessage |-> FALSE]
RespThrow(code, msg) == [kind |-> "throw", statusCode |-> code, hasMessage |-> msg]
NoResp == [kind |-> "none", statusCode |-> 0, hasMessage |-> FALSE]

StatusCodes == {0, 429, 529}
Responses ==
    {RespBlock, RespNull, RespNoTx}
    \cup {RespThrow(c, m) : c \in StatusCodes, m \in BOOLEAN}

\* The value `block` is bound to after the await.
ResponseValue(resp, n) ==
    CASE resp.kind = "block" -> Chain(n)
      [] resp.kind = "notx" -> JsObject(<<"number">>, <<JsBigInt(n)>>)
      [] OTHER -> JsNull

(***************************************************************************)
(* Files of the cache directory.                                           *)
(***************************************************************************)
NoFile == [exists |-> FALSE, bytes |-> <<>>]
FileOf(bytes) == [exists |-> TRUE, bytes |-> bytes]

\* What a write that fails part-way leaves behind: a prefix of the data.
Truncated(bytes) == SubSeq(bytes, 1, Len(bytes) \div 2)

\* zstd -3 --stdout / zstd -d --stdout: a frame is the magic number followed
\* by the payload; decompressing anything else fails.
ZstdMagic == [tk |-> "zstd-frame"]
ZstdCompress(bytes) == <<ZstdMagic>> \o bytes
ZstdOk(bytes) == bytes # <<>> /\ bytes[1] = ZstdMagic
ZstdDecompress(bytes) == Tail(bytes)

\* The try block of the compressed probe: read, decompress, parse.
ReadCompressed(file) ==
    IF file.exists /\ ZstdOk(file.bytes)
    THEN JsonParse(ZstdDecompress(file.bytes))
    ELSE JsThrow

\* A legacy probe that takes text it cannot parse for an empty record.
ReadLegacyLenient(file) ==
    IF ~file.exists THEN JsThrow
    ELSE IF JsonParse(file.bytes) = JsThrow THEN JsObject(<<>>, <<>>)
    ELSE JsonParse(file.bytes)

\* A legacy probe that decompresses what it read before parsing it.
ReadLegacyDecompressing(file) == ReadCompressed(file)

\* The try block of the legacy probe: read, parse.
ReadLegacy(file) == IF file.exists THEN JsonParse(file.bytes) ELSE JsThrow

ShardSize == 1000000
\* A shard number rounded to the nearest million, as Math.round would.
ShardNumberRounded(blockNum) == (blockNum + (ShardSize \div 2)) \div ShardSize

\* Math.floor(blockNum / 1000000)
ShardNumber(blockNum) == blockNum \div ShardSize

Shards == {ShardNumber(n) : n \in Blocks}

(***************************************************************************)
(* The range argument.                                                     *)
(***************************************************************************)
Num(n) == [k |-> "num", n |-> n]
NaN == [k |-> "nan", n |-> 0]
Null == [k |-> "null", n |-> 0]

RECURSIVE DigitPrefix(_)
DigitPrefix(cs) ==
    IF cs # <<>> /\ IsDigit(cs[1]) THEN <<cs[1]>> \o DigitPrefix(Tail(cs)) ELSE <<>>

\* parseInt(str): the longest run of leading digits after an optional sign,
\* NaN when there is none.
ParseInt(cs) ==
    LET neg == cs # <<>> /\ cs[1] = "-"
        body == IF cs # <<>> /\ cs[1] \in {"-", "+"} THEN Tail(cs) ELSE cs
        ds == DigitPrefix(body)
    IN IF ds = <<>> THEN NaN
       ELSE Num(IF neg THEN 0 - DigitsToNat(ds) ELSE DigitsToNat(ds))

LowerChar(c) ==
    CASE c = "M" -> "m" [] c = "A" -> "a" [] c = "X" -> "x" [] OTHER -> c

ToLowerCase(cs) == [k \in 1..Len(cs) |-> LowerChar(cs[k])]

MaxKeyword == <<"m", "a", "x">>

Includes(cs, c) == \E k \in 1..Len(cs) : cs[k] = c

\* The first element of str.split('-').
RECURSIVE SplitHead(_)
SplitHead(cs) ==
    IF cs = <<>> \/ cs[1] = "-" THEN <<>> ELSE <<cs[1]>> \o SplitHead(Tail(cs))

\* What follows the first '-' of str.
RECURSIVE AfterDash(_)
AfterDash(cs) ==
    IF cs = <<>> THEN <<>>
    ELSE IF cs[1] = "-" THEN Tail(cs) ELSE AfterDash(Tail(cs))

\* An order check that never fires.
StartExceedsEndNever(s, e) == FALSE

\* !isNaN(start) && !isNaN(end) && start > end
StartExceedsEnd(s, e) == s # NaN /\ e # NaN /\ s.n > e.n

\* The module-level range parsing: the start and end it leaves, or the
\* process.exit(1) it takes.
ParseRange(range) ==
    IF Includes(range, "-")
    THEN LET startStr == SplitHead(range)
             endStr == SplitHead(AfterDash(range))
             s == ParseInt(startStr)
         IN IF startStr = <<>> \/ endStr = <<>>
            THEN [exit |-> TRUE, start |-> Null, end |-> Null]
            ELSE IF ToLowerCase(endStr) = MaxKeyword
                 THEN [exit |-> s = NaN, start |-> s, end |-> Null]
            ELSE LET e == ParseInt(endStr) IN
                 [exit |-> StartExceedsEnd(s, e) \/ s = NaN \/ e = NaN,
                  start |-> s, end |-> e]
    ELSE IF ToLowerCase(range) = MaxKeyword
         THEN [exit |-> FALSE, start |-> Null, end |-> Null]
         ELSE LET s == ParseInt(range) IN
              [exit |-> s = NaN, start |-> s, end |-> s]

\* Range arguments of the model: every dashed pair and single number over
\* ArgNums, the max keyword alone and as an end, and malformed ones.
PairArg(a, b) == IntToStr(a) \o <<"-">> \o IntToStr(b)

RangeArgs ==
    {PairArg(a, b) : a, b \in ArgNums}
    \cup {IntToStr(a) : a \in ArgNums}
    \cup {IntToStr(a) \o <<"-">> \o MaxKeyword : a \in ArgNums}
    \cup {MaxKeyword, <<"M", "A", "X">>, <<"a", "b", "c">>, <<"-", "1">>,
          <<"1", "-">>, <<"1", "x">>, <<"l", "a", "t", "e", "s", "t">>,
          <<"0", "-", "l", "a", "t", "e", "s", "t">>,
          <<"m", "a", "x", "-", "1">>, <<"0", "-", "1", "-", "2">>}

(***************************************************************************)
(* State.                                                                  *)
(***************************************************************************)
VARIABLES
    \* The cache directory, which outlives a process.
    disk,           \* block number -> its two entry files
    shardDirs,      \* the shard directories that exist
    \* One process (one invocation of infura-extract.js).
    pc,             \* where the process is: see the actions
    cacheDir,       \* the cacheDir object: ready, zstdAvailable
    range,          \* argv[3]
    start, end,     \* the module-level start and end
    latestBlock,    \* main's latestBlock
    i,              \* main's loop variable
    memCache,       \* the Map: block number -> block
    blockNumber,    \* getBlock's parameter
    attempts,       \* getBlock's attempts
    err,            \* the error the catch block is handling
    delay,          \* the delay of the timer being awaited (ms)
    waited,         \* the failure being waited for, and the timers set for it
    out,            \* stdout: the lines console.log wrote
    \* History, for stating the properties.
    processed,      \* the block numbers getBlock was called with, in order
    results,        \* block number -> what getBlock gave for it in this run
    call,           \* the current or last getBlock call
    memSets,        \* block number -> memCache.set calls for it in this run
    writeTried,     \* blocks whose write-through reached fs.writeFileSync
    abort,          \* why the process called process.exit(1), if it did
    headQueries,    \* web3.eth.getBlockNumber() calls of this run
    tally,          \* the block requests of this run, where they are counted
    response,       \* what the provider call of getBlock just resolved to
    diag,           \* stderr: the kinds of line written to it
    \* Invocations that run at the same time on one cache directory.
    conc,           \* invocation -> where its getBlock is, and what it returned
    \* mm-extract.js: its cacheDir.ready, memCache, entry files and getBlock.
    mm,
    \* The paths getShardedPath gave for the probes and for the writes.
    paths,
    \* The start-up set-up of invocations on one cache directory.
    setup,
    persistedPlain, \* blocks a run without zstd fetched and wrote to .json
    \* The codec on its own: a record, its text, the text parsed, that encoded.
    codecStep, codecIn, codecText, codecOut, codecText2

diskVars == <<disk, shardDirs, persistedPlain>>
argVars == <<cacheDir, range, start, end, latestBlock>>
fetchVars == <<attempts, err, delay, waited>>
processVars == <<pc, i, memCache, blockNumber, out, processed, results, call,
                 memSets, writeTried, abort, headQueries, response, diag,
                 tally>>
codecVars == <<codecStep, codecIn, codecText, codecOut, codecText2>>
otherVars == <<codecVars, conc, mm, paths, setup>>
vars == <<disk, shardDirs, pc, cacheDir, range, start, end, latestBlock, i,
          memCache, blockNumber, attempts, err, delay, out, processed,
          results, call, memSets, persistedPlain, codecStep, codecIn,
          codecText, codecOut, codecText2, writeTried, abort, headQueries,
          response, diag, conc, waited, mm, paths, setup, tally>>

NotCalled == [jt |-> "not-called"]

\* No failed attempt is being waited for.
NoWait == [class |-> "none", total |-> 0]

\* A run whose block requests are not counted.
Untallied == [on |-> FALSE, n |-> 0]

\* One more block request was sent.
Sent(t) == [t EXCEPT !.n = IF t.on THEN @ + 1 ELSE @]

NoCall == [n |-> -1, src |-> "none", calls |-> 0, reads |-> 0, mem |-> FALSE,
           zst |-> "absent", json |-> "absent", lines |-> 0]

EmptyMap == [n \in {} |-> JsNull]

ProcessInit ==
    /\ pc = "start"
    /\ cacheDir = [ready |-> FALSE, zstdAvailable |-> FALSE]
    /\ range = <<>>
    /\ start = Null
    /\ end = Null
    /\ latestBlock = 0
    /\ i = 0
    /\ memCache = EmptyMap
    /\ blockNumber = 0
    /\ attempts = 0
    /\ err = NoResp
    /\ delay = 0
    /\ waited = NoWait
    /\ out = <<>>
    /\ processed = <<>>
    /\ results = [n \in Blocks |-> NotCalled]
    /\ call = NoCall
    /\ memSets = [n \in Blocks |-> 0]
    /\ writeTried = {}
    /\ abort = "none"
    /\ headQueries = 0
    /\ response = "none"
    /\ diag = {}

\* The invocations that share the cache directory, and the block they ask
\* for.
Procs == {1, 2}
ConcBlock == 2

NoResult == [jt |-> "none"]

\* An invocation before its getBlock call; zstd is what its start-up probe
\* found.
ConcIdleProc(zstd) ==
    [pc |-> "idle", zstd |-> zstd, probe |-> "none", target |-> "none",
     pos |-> 0, result |-> NoResult]

ConcIdle == conc = [p \in Procs |-> ConcIdleProc(FALSE)]

\* No concurrent set-up is looked at.
SetupNotRun == setup = [run |-> FALSE]

\* mm-extract.js is not run and no path has been computed.
MmNotRun == mm = [pc |-> "idle"] /\ paths = [network |-> "none"]

CodecIdle ==
    /\ codecStep = "idle"
    /\ codecIn = JsNull
    /\ codecText = <<>>
    /\ codecOut = JsNull
    /\ codecText2 = <<>>

\* An empty cache directory and a process about to start.
Init ==
    /\ disk = [n \in Blocks |-> [zst |-> NoFile, json |-> NoFile]]
    /\ shardDirs = {}
    /\ persistedPlain = {}
    /\ ProcessInit
    /\ SetupNotRun
    /\ tally = Untallied
    /\ CodecIdle
    /\ ConcIdle
    /\ MmNotRun

(***************************************************************************)
(* Start-up: the module-level code, up to main's first await.              *)
(***************************************************************************)
\* The kinds of line the program writes with debug, console.error and
\* console.warn.
DebugLine == JsString(<<"[DEBUG]">>)
ErrorLine == JsString(<<"[ERROR]">>)
WarnStartLine == JsString(<<"[WARNING] Start block">>)
WarnEndLine == JsString(<<"[WARNING] End block">>)

\* A warning written with console.log.
ConsoleWarnToStdout(line) == [out |-> <<line>>, diag |-> {}]

\* console.warn(line): a line on stderr, nothing on stdout.
ConsoleWarn(line) == [out |-> <<>>, diag |-> {line}]

\* A main() that is called before the module-level checks.
MainCalledAlways(exits) == TRUE

\* main() at the end of the module is reached unless a check exited.
MainCalled(exits) == ~exits

\* The first check that exits, in the order of the module: network, key,
\* range.
AbortReason(networkOk, keySet, rangeExit) ==
    IF ~networkOk THEN "network"
    ELSE IF ~keySet THEN "key"
    ELSE IF rangeExit THEN "range"
    ELSE "none"

\* Arguments, environment and cache directory set-up (lines 43-187), then
\* main() up to `await getLatestBlockNumber()`.
Startup(rangeArgs) ==
    /\ pc = "start"
    /\ \E networkOk, keySet, setupOk, zstdInstalled \in BOOLEAN, r \in rangeArgs :
         LET parsed == ParseRange(r)
             exits == ~networkOk \/ ~keySet \/ parsed.exit
         IN /\ abort' = AbortReason(networkOk, keySet, parsed.exit)
            /\ headQueries' = IF MainCalled(exits) THEN 1 ELSE 0
            /\ diag' = IF ~networkOk THEN {ErrorLine}
                       ELSE (IF setupOk THEN {DebugLine} ELSE {ErrorLine})
                            \cup (IF ~keySet \/ parsed.exit THEN {ErrorLine}
                                  ELSE {DebugLine})
            /\ range' = r
            /\ cacheDir' = IF networkOk
                           THEN [ready |-> setupOk,
                                 zstdAvailable |-> setupOk /\ zstdInstalled]
                           ELSE cacheDir
            /\ start' = IF networkOk /\ keySet THEN parsed.start ELSE Null
            /\ end' = IF networkOk /\ keySet THEN parsed.end ELSE Null
            /\ pc' = IF exits THEN "exit1" ELSE "head"
    /\ UNCHANGED <<diskVars, latestBlock, i, memCache, blockNumber, fetchVars,
                   out, processed, results, call, memSets, writeTried,
                   response, tally>>
    /\ UNCHANGED otherVars

\* A resolution of max that does not use the observed head.
ResolveBoundStale(b, head) == IF b = Null THEN 0 ELSE b.n

\* The bounds main leaves in start and end for the observed head.
ResolveBound(b, head) == IF b = Null THEN head ELSE b.n
ClampBound(n, head) == IF n > head THEN head ELSE n

\* web3.eth.getBlockNumber() resolves: main resolves max, clamps both bounds
\* to the head and reaches the loop.
HeadResolves(heads) ==
    /\ pc = "head"
    /\ \E head \in heads :
         LET s == ResolveBound(start, head)
             e == ResolveBound(end, head)
             ws == IF s > head THEN ConsoleWarn(WarnStartLine)
                   ELSE [out |-> <<>>, diag |-> {}]
             we == IF e > head THEN ConsoleWarn(WarnEndLine)
                   ELSE [out |-> <<>>, diag |-> {}]
         IN /\ latestBlock' = head
            /\ start' = Num(ClampBound(s, head))
            /\ end' = Num(ClampBound(e, head))
            /\ i' = ClampBound(s, head)
            /\ out' = out \o ws.out \o we.out
            /\ diag' = diag \cup {DebugLine} \cup ws.diag \cup we.diag
    /\ pc' = "loop"
    /\ UNCHANGED <<diskVars, cacheDir, range, memCache, blockNumber, fetchVars,
                   processed, results, call, memSets, writeTried, abort,
                   headQueries, tally, response>>
    /\ UNCHANGED otherVars

\* web3.eth.getBlockNumber() rejects: getLatestBlockNumber exits with 1.
HeadRejects ==
    /\ pc = "head"
    /\ pc' = "exit1"
    /\ abort' = "head"
    /\ diag' = diag \cup {ErrorLine}
    /\ UNCHANGED <<diskVars, argVars, i, memCache, blockNumber, fetchVars,
                   out, processed, results, call, memSets, writeTried,
                   headQueries, tally, response>>
    /\ UNCHANGED otherVars

(***************************************************************************)
(* main's loop body around getBlock.                                       *)
(***************************************************************************)
RECURSIVE TxLinesRecipientFirst(_, _)
\* An extraction that writes the recipient before the sender.
TxLinesRecipientFirst(txs, k) ==
    IF k > Len(txs) THEN <<>>
    ELSE (IF Truthy(GetProp(txs[k], "to")) THEN <<GetProp(txs[k], "to")>>
          ELSE <<>>)
         \o <<GetProp(txs[k], "from")>>
         \o TxLinesRecipientFirst(txs, k + 1)

RECURSIVE TxLines(_, _)
\* for (const tx of block.transactions): tx.from, then tx.to if truthy.
TxLines(txs, k) ==
    IF k > Len(txs) THEN <<>>
    ELSE <<GetProp(txs[k], "from")>>
         \o (IF Truthy(GetProp(txs[k], "to")) THEN <<GetProp(txs[k], "to")>>
             ELSE <<>>)
         \o TxLines(txs, k + 1)

\* The lines main writes to stdout for what getBlock returned.
ExtractAddresses(block) ==
    IF ~Truthy(block) THEN <<>>
    ELSE LET txs == GetProp(block, "transactions") IN
         IF Truthy(txs) /\ txs.jt = "array" THEN TxLines(txs.items, 1) ELSE <<>>

\* getBlock(n) ends, returning block from src (JsThrow: it threw, and main's
\* promise rejects); main emits the addresses and steps to the next number.
Resume(n, block, src, c) ==
    /\ out' = out \o ExtractAddresses(block)
    /\ results' = [results EXCEPT ![n] = block]
    /\ call' = [c EXCEPT !.src = src, !.lines = Len(ExtractAddresses(block))]
    /\ pc' = IF block = JsThrow THEN "crashed" ELSE "loop"
    /\ i' = IF block = JsThrow THEN i ELSE n + 1

(***************************************************************************)
(* getBlock: the memory and disk tiers.                                    *)
(***************************************************************************)
\* A memory probe that never hits.
MemHasNever(n) == FALSE

\* memCache.has(blockNumber)
MemHas(n) == n \in DOMAIN memCache

\* memCache.set(blockNumber, block)
MemSet(n, block) ==
    /\ memCache' = (n :> block) @@ memCache
    /\ memSets' = [memSets EXCEPT ![n] = @ + 1]

\* getShardedPath: the shard directory is created if it is missing; mkdirOk
\* is whether that mkdirSync succeeds.
GetShardedPath(dirs, n, mkdirOk) ==
    IF ShardNumber(n) \notin dirs /\ mkdirOk THEN dirs \cup {ShardNumber(n)}
    ELSE dirs

FileStatus(file, value) ==
    IF ~file.exists THEN "absent" ELSE IF value = JsThrow THEN "bad" ELSE "ok"

\* Whether the compressed file is tried at all.
TriesCompressed(n) ==
    cacheDir.ready /\ cacheDir.zstdAvailable /\ disk[n].zst.exists

\* A probe that tries the legacy file only in a run without zstd.
TriesLegacyWithoutZstdOnly(n) ==
    cacheDir.ready /\ ~cacheDir.zstdAvailable /\ disk[n].json.exists

\* A legacy probe that does not look at cacheDir.ready.
TriesLegacyUnguarded(n) == disk[n].json.exists

\* Whether the legacy file is tried once the compressed probe has not returned.
TriesLegacy(n) == cacheDir.ready /\ disk[n].json.exists

\* The disk probe: the compressed file first, the legacy file next.
DiskProbe(n) ==
    LET z == ReadCompressed(disk[n].zst)
        j == ReadLegacy(disk[n].json)
    IN IF TriesCompressed(n) /\ z # JsThrow
       THEN [hit |-> TRUE, block |-> z, src |-> "disk-zst", reads |-> 1]
       ELSE IF TriesLegacy(n) /\ j # JsThrow
       THEN [hit |-> TRUE, block |-> j, src |-> "disk-json",
             reads |-> IF TriesCompressed(n) THEN 2 ELSE 1]
       ELSE [hit |-> FALSE, block |-> JsNull, src |-> "miss",
             reads |-> (IF TriesCompressed(n) THEN 1 ELSE 0)
                       + (IF TriesLegacy(n) THEN 1 ELSE 0)]

\* How the entry of a getBlock(n) call finds the tiers.
EntryOf(n) ==
    [n |-> n, src |-> "pending", calls |-> 0, reads |-> 0,
     mem |-> n \in DOMAIN memCache,
     zst |-> FileStatus(disk[n].zst, ReadCompressed(disk[n].zst)),
     json |-> FileStatus(disk[n].json, ReadLegacy(disk[n].json)),
     lines |-> 0]

\* An attempt counter that outlives the getBlock call.
AttemptsCarriedOver == attempts

\* let attempts = 0: each getBlock call has a counter of its own.
AttemptsOfCall == 0

\* getBlock(n) from its call to its first await or its return: the memory
\* probe, getShardedPath, the disk probe, and the first provider request.
GetBlockCall(n) ==
    /\ processed' = Append(processed, n)
    /\ blockNumber' = n
    /\ IF MemHas(n)
       THEN /\ Resume(n, memCache[n], "memory", EntryOf(n))
            /\ UNCHANGED <<diskVars, memCache, memSets, fetchVars>>
       ELSE /\ \E mkdirOk \in BOOLEAN :
                 shardDirs' = GetShardedPath(shardDirs, n, mkdirOk)
            /\ IF DiskProbe(n).hit
               THEN /\ MemSet(n, DiskProbe(n).block)
                    /\ Resume(n, DiskProbe(n).block, DiskProbe(n).src,
                              [EntryOf(n) EXCEPT !.reads = DiskProbe(n).reads])
                    /\ UNCHANGED <<attempts>>
               ELSE /\ attempts' = AttemptsOfCall
                    /\ pc' = "request"
                    /\ call' = [EntryOf(n) EXCEPT !.reads = DiskProbe(n).reads,
                                                  !.calls = 1]
                    /\ UNCHANGED <<memCache, memSets, out, results, i>>
            /\ UNCHANGED <<disk, persistedPlain, err, delay, waited>>
    /\ response' = "none"
    /\ diag' = diag \cup {DebugLine}
    /\ tally' = IF pc' = "request" THEN Sent(tally) ELSE tally
    /\ UNCHANGED <<argVars, writeTried, abort, headQueries>>
    /\ UNCHANGED otherVars

\* A loop test that stops one block short.
LoopContinuesBelowEnd == i < end.n

\* The loop test: i <= end
LoopContinues == i <= end.n

\* A main that calls getBlock(i) without await: it goes on while the call
\* is pending.
MainResumesUnawaited ==
    pc \in {"loop", "request", "sleepEmpty", "sleepRateLimit", "sleepBackoff"}

\* const block = await getBlock(i): main goes on once the call has settled.
MainResumes == pc = "loop"

\* main's for loop calls getBlock(i) while i <= end.
LoopStep ==
    /\ MainResumes
    /\ LoopContinues
    /\ GetBlockCall(i)

\* The loop ends and main returns: the process exits with code 0.
LoopDone ==
    /\ MainResumes
    /\ ~LoopContinues
    /\ pc' = "done"
    /\ diag' = diag \cup {DebugLine}
    /\ UNCHANGED <<diskVars, argVars, i, memCache, blockNumber, fetchVars, out,
                   processed, results, call, memSets, writeTried, abort,
                   headQueries, tally, response>>
    /\ UNCHANGED otherVars

(***************************************************************************)
(* getBlock: the remote fetch and its retries.                             *)
(***************************************************************************)
MaxAttempts == 3

\* A success test that wants at least one transaction.
IsSuccessNonEmpty(block) ==
    /\ Truthy(block) /\ Truthy(GetProp(block, "transactions"))
    /\ GetProp(block, "transactions").items # <<>>

\* A success test that takes any object the provider resolves with.
IsSuccessAnyObject(block) == Truthy(block)

\* if (block && block.transactions)
IsSuccess(block) == Truthy(block) /\ Truthy(GetProp(block, "transactions"))

\* A backoff that grows by one second per attempt, as 1000 * (attempts + 1).
BackoffDelayLinear(a) == 1000 * (a + 1)

\* Math.min(30000, 1000 * Math.pow(2, attempts))
BackoffDelay(a) == IF 1000 * (2 ^ a) < 30000 THEN 1000 * (2 ^ a) ELSE 30000

\* Math.min(60000, 5000 * Math.pow(2, attempts))
RateLimitDelay(a) == IF 5000 * (2 ^ a) < 60000 THEN 5000 * (2 ^ a) ELSE 60000

\* error.statusCode === 429 || error.statusCode === 529
IsRateLimit(e) == e.statusCode = 429 \/ e.statusCode = 529

WriteOutcomes == {"ok", "partial", "fail"}

\* fs.writeFileSync(path, bytes): it writes all, throws part-way, or throws
\* before writing; without the directory it can only throw.
WriteFile(file, bytes, outcome, dirExists) ==
    IF ~dirExists THEN file
    ELSE CASE outcome = "ok" -> FileOf(bytes)
           [] outcome = "partial" -> FileOf(Truncated(bytes))
           [] OTHER -> file

\* A write-through that writes the compressed file whether or not zstd was
\* detected.
WriteThroughAlwaysCompressed(entry, jsonData, w1, w2, dirExists) ==
    [zst |-> WriteFile(entry.zst, ZstdCompress(jsonData), w1, dirExists),
     json |-> IF w1 = "ok" /\ dirExists THEN entry.json
              ELSE WriteFile(entry.json, jsonData, w2, dirExists)]

\* The write-through of a fetched block: the entry files of n it leaves
\* behind when the writes end as w1 (compressed, or the only legacy write)
\* and w2 (the legacy fallback).
WriteThrough(entry, jsonData, w1, w2, dirExists) ==
    IF cacheDir.zstdAvailable
    THEN [zst |-> WriteFile(entry.zst, ZstdCompress(jsonData), w1, dirExists),
          json |-> IF w1 = "ok" /\ dirExists THEN entry.json
                   ELSE WriteFile(entry.json, jsonData, w2, dirExists)]
    ELSE [zst |-> entry.zst,
          json |-> WriteFile(entry.json, jsonData, w1, dirExists)]

\* A loop test that allows a fourth request.
LoopTestFourAttempts(a) ==
    IF a < MaxAttempts + 1
    THEN /\ pc' = "request"
         /\ call' = [call EXCEPT !.calls = @ + 1]
         /\ tally' = Sent(tally)
         /\ diag' = diag \cup {DebugLine}
         /\ UNCHANGED <<out, results, i>>
    ELSE /\ Resume(blockNumber, JsNull, "unavailable", call)
         /\ diag' = diag \cup {ErrorLine}
         /\ UNCHANGED tally

\* while (attempts < 3): the next request, or the give-up that returns null.
LoopTest(a) ==
    IF a < MaxAttempts
    THEN /\ pc' = "request"
         /\ call' = [call EXCEPT !.calls = @ + 1]
         /\ tally' = Sent(tally)
         /\ diag' = diag \cup {DebugLine}
         /\ UNCHANGED <<out, results, i>>
    ELSE /\ Resume(blockNumber, JsNull, "unavailable", call)
         /\ diag' = diag \cup {ErrorLine}
         /\ UNCHANGED tally

\* The catch block after the rate-limit wait: error.message.includes throws
\* a TypeError out of getBlock when the error has no message; otherwise the
\* backoff timer is set.
CatchRest(e, class, sofar) ==
    IF ~e.hasMessage
    THEN /\ Resume(blockNumber, JsThrow, "threw", call)
         /\ delay' = 0
         /\ waited' = [class |-> class, total |-> sofar]
         /\ diag' = diag \cup {ErrorLine}
    ELSE /\ pc' = "sleepBackoff"
         /\ delay' = BackoffDelay(attempts)
         /\ waited' = [class |-> class,
                       total |-> sofar + BackoffDelay(attempts)]
         /\ diag' = diag \cup {ErrorLine, DebugLine}
         /\ UNCHANGED <<out, results, call, i>>

\* A catch of a write error that turns the disk tier off.
CatchWriteErrorDisablesCache(c) == [c EXCEPT !.ready = FALSE]

\* The catch blocks of the write-through and of getShardedPath only log:
\* the cacheDir object stays as it is.
CatchWriteError(c) == c

\* The kind of a provider response.
ResponseKind(resp) ==
    CASE resp = RespBlock -> "block" [] resp = RespNull -> "null"
      [] OTHER -> "no-transactions"

\* The provider call resolves. A block with transactions is cached, written
\* through and returned; anything else counts an attempt and waits.
ProviderResolves ==
    /\ pc = "request"
    /\ \E resp \in {RespBlock, RespNull, RespNoTx} :
         LET n == blockNumber
             block == ResponseValue(resp, n)
             jsonData == Stringify(block)
         IN /\ response' = ResponseKind(resp)
            /\ IF IsSuccess(block)
               THEN /\ MemSet(n, block)
                    /\ IF ~cacheDir.ready
                       THEN /\ Resume(n, block, "remote", call)
                            /\ diag' = diag \cup {DebugLine}
                            /\ UNCHANGED <<diskVars, fetchVars, writeTried,
                                           cacheDir>>
                       ELSE IF StringifyThrows(jsonData)
                       THEN /\ CatchRest(RespThrow(0, TRUE), "serialize", 0)
                            /\ UNCHANGED <<diskVars, attempts, err, writeTried,
                                           cacheDir>>
                       ELSE /\ \E mkdirOk \in BOOLEAN, w1, w2 \in WriteOutcomes :
                                 LET dirs == GetShardedPath(shardDirs, n, mkdirOk)
                                     dirExists == ShardNumber(n) \in dirs
                                 IN /\ shardDirs' = dirs
                                    /\ cacheDir' =
                                          IF ~dirExists \/ w1 # "ok"
                                          THEN CatchWriteError(cacheDir)
                                          ELSE cacheDir
                                    /\ disk' = [disk EXCEPT ![n] =
                                          WriteThrough(@, jsonData, w1, w2, dirExists)]
                                    /\ persistedPlain' =
                                          IF ~cacheDir.zstdAvailable /\ dirExists
                                             /\ w1 = "ok"
                                          THEN persistedPlain \cup {n}
                                          ELSE persistedPlain
                            /\ writeTried' = writeTried \cup {n}
                            /\ diag' = diag \cup {DebugLine}
                            /\ Resume(n, block, "remote", call)
                            /\ UNCHANGED <<fetchVars>>
               ELSE /\ attempts' = attempts + 1
                    /\ delay' = BackoffDelay(attempts + 1)
                    /\ waited' = [class |-> "empty",
                                  total |-> BackoffDelay(attempts + 1)]
                    /\ pc' = "sleepEmpty"
                    /\ diag' = diag \cup {ErrorLine, DebugLine}
                    /\ UNCHANGED <<diskVars, memCache, memSets, err, out, results,
                                   call, i, writeTried, cacheDir>>
    /\ UNCHANGED <<range, start, end, latestBlock, blockNumber, processed,
                   abort, headQueries, tally>>
    /\ UNCHANGED otherVars

\* The timer after an empty or invalid block fires.
EmptyWaitDone ==
    /\ pc = "sleepEmpty"
    /\ delay' = 0
    /\ waited' = NoWait
    /\ response' = "none"
    /\ LoopTest(attempts)
    /\ UNCHANGED <<diskVars, argVars, memCache, memSets, blockNumber, attempts,
                   err, processed, writeTried, abort, headQueries>>
    /\ UNCHANGED otherVars

\* The provider call rejects: the catch block, up to its first await.
ProviderRejects ==
    /\ pc = "request"
    /\ \E code \in StatusCodes, msg \in BOOLEAN :
         LET e == RespThrow(code, msg) IN
         IF IsRateLimit(e)
         THEN /\ pc' = "sleepRateLimit"
              /\ err' = e
              /\ delay' = RateLimitDelay(attempts)
              /\ waited' = [class |-> "rate-limit",
                            total |-> RateLimitDelay(attempts)]
              /\ diag' = diag \cup {ErrorLine, DebugLine}
              /\ UNCHANGED <<out, results, call, i>>
         ELSE /\ CatchRest(e, "error", 0)
              /\ UNCHANGED <<err>>
    /\ UNCHANGED <<diskVars, argVars, memCache, memSets, blockNumber, attempts,
                   processed, writeTried, abort, headQueries, tally, response>>
    /\ UNCHANGED otherVars

\* The rate-limit timer fires: the rest of the catch block.
RateLimitWaitDone ==
    /\ pc = "sleepRateLimit"
    /\ CatchRest(err, "rate-limit", waited.total)
    /\ err' = NoResp
    /\ UNCHANGED <<diskVars, argVars, memCache, memSets, blockNumber, attempts,
                   processed, writeTried, abort, headQueries, tally, response>>
    /\ UNCHANGED otherVars

\* The backoff timer of the catch block fires: attempts++ and the loop test.
BackoffDone ==
    /\ pc = "sleepBackoff"
    /\ attempts' = attempts + 1
    /\ delay' = 0
    /\ waited' = NoWait
    /\ LoopTest(attempts + 1)
    /\ UNCHANGED <<diskVars, argVars, memCache, memSets, blockNumber, err,
                   processed, writeTried, abort, headQueries, response>>
    /\ UNCHANGED otherVars

\* The process has exited and the program is invoked again on the same
\* cache directory: a new process, with a new memCache.
Restart ==
    /\ pc \in {"done", "exit1", "crashed"}
    /\ pc' = "start"
    /\ cacheDir' = [ready |-> FALSE, zstdAvailable |-> FALSE]
    /\ range' = <<>>
    /\ start' = Null
    /\ end' = Null
    /\ latestBlock' = 0
    /\ i' = 0
    /\ memCache' = EmptyMap
    /\ blockNumber' = 0
    /\ attempts' = 0
    /\ err' = NoResp
    /\ delay' = 0
    /\ waited' = NoWait
    /\ out' = <<>>
    /\ processed' = <<>>
    /\ results' = [n \in Blocks |-> NotCalled]
    /\ call' = NoCall
    /\ memSets' = [n \in Blocks |-> 0]
    /\ writeTried' = {}
    /\ abort' = "none"
    /\ headQueries' = 0
    /\ tally' = [tally EXCEPT !.n = 0]
    /\ response' = "none"
    /\ diag' = {}
    /\ UNCHANGED diskVars
    /\ UNCHANGED otherVars

(***************************************************************************)
(* Specifications.                                                         *)
(***************************************************************************)
\* One invocation on an empty cache directory, for every range argument.
Next ==
    \/ Startup(RangeArgs)
    \/ HeadResolves(Blocks)
    \/ HeadRejects
    \/ LoopStep
    \/ LoopDone
    \/ ProviderResolves
    \/ EmptyWaitDone
    \/ ProviderRejects
    \/ RateLimitWaitDone
    \/ BackoffDone

Spec == Init /\ [][Next]_vars

\* Any number of invocations, one after the other, on the same cache
\* directory, each for a single block number below the head.
SingleArgs == {IntToStr(a) : a \in CachedBlocks}

NextRuns ==
    \/ Startup(SingleArgs)
    \/ HeadResolves({MaxBlock})
    \/ HeadRejects
    \/ LoopStep
    \/ LoopDone
    \/ ProviderResolves
    \/ EmptyWaitDone
    \/ ProviderRejects
    \/ RateLimitWaitDone
    \/ BackoffDone
    \/ Restart

SpecRuns == Init /\ [][NextRuns]_vars

\* The same invocation with its block requests counted; every pending
\* provider call settles and every pending timer fires.
InitLive ==
    /\ disk = [n \in Blocks |-> [zst |-> NoFile, json |-> NoFile]]
    /\ shardDirs = {}
    /\ persistedPlain = {}
    /\ ProcessInit
    /\ SetupNotRun
    /\ tally = [on |-> TRUE, n |-> 0]
    /\ CodecIdle
    /\ ConcIdle
    /\ MmNotRun

\* The ranges of the counted runs: a single block, two blocks, the head.
LiveArgs == {IntToStr(0), PairArg(0, 1), MaxKeyword}

\* The steps of one run, on a chain whose head is block 1.
NextLive ==
    \/ Startup(LiveArgs)
    \/ HeadResolves({1})
    \/ HeadRejects
    \/ LoopStep
    \/ LoopDone
    \/ EmptyWaitDone
    \/ ProviderRejects
    \/ RateLimitWaitDone
    \/ BackoffDone
    \/ ProviderResolves

SpecLive == InitLive /\ [][NextLive]_vars /\ WF_vars(NextLive)

\* getBlock as a caller other than main's ascending loop may use it: any
\* block number, any number of times in one process.
CallAny ==
    /\ pc = "loop"
    /\ Len(processed) < MaxCalls
    /\ \E n \in CachedBlocks : GetBlockCall(n)

CallsDone ==
    /\ pc = "loop"
    /\ pc' = "done"
    /\ diag' = diag \cup {DebugLine}
    /\ UNCHANGED <<diskVars, argVars, i, memCache, blockNumber, fetchVars, out,
                   processed, results, call, memSets, writeTried, abort,
                   headQueries, tally, response>>
    /\ UNCHANGED otherVars

NextCalls ==
    \/ Startup({MaxKeyword})
    \/ HeadResolves(Blocks)
    \/ HeadRejects
    \/ CallAny
    \/ CallsDone
    \/ ProviderResolves
    \/ EmptyWaitDone
    \/ ProviderRejects
    \/ RateLimitWaitDone
    \/ BackoffDone

\* The entry files earlier invocations leave when every write succeeds: none
\* yet, compressed ones (zstd was available), or legacy ones (it was not).
CachedDisk(kind) ==
    [n \in Blocks |->
        [zst |-> IF kind = "zst" THEN FileOf(ZstdCompress(Stringify(Chain(n))))
                 ELSE NoFile,
         json |-> IF kind = "json" THEN FileOf(Stringify(Chain(n))) ELSE NoFile]]

InitCalls ==
    /\ \E kind \in {"empty", "zst", "json"} :
         /\ disk = CachedDisk(kind)
         /\ shardDirs = IF kind = "empty" THEN {} ELSE Shards
    /\ persistedPlain = {}
    /\ ProcessInit
    /\ SetupNotRun
    /\ tally = Untallied
    /\ CodecIdle
    /\ ConcIdle
    /\ MmNotRun

SpecCalls == InitCalls /\ [][NextCalls]_vars
(***************************************************************************)
(* The codec applied to block records: JSON.stringify(block, replacer),    *)
(* JSON.parse(text, reviver), and the stringify of what was parsed.        *)
(***************************************************************************)
\* Magnitudes of the big-integer fields: zero, one digit, a power of ten,
\* trailing and inner zeros, the widest the checker's integers hold, and a
\* negative one.
BigValues == {0, 7, 10, 1002003, 2147483647, -45}

\* A transaction as web3 gives it: big-integer value and nonce, a plain
\* number, and a recipient that is null for a contract creation.
CodecTx(to, value) ==
    JsObject(<<"from", "to", "value", "nonce", "v">>,
             <<AddrA, to, JsBigInt(value), JsBigInt(value \div 7), JsNumber(27)>>)

CodecTxs == {CodecTx(to, v) : to \in {AddrB, JsNull}, v \in BigValues}

RECURSIVE SeqsUpTo(_, _)
SeqsUpTo(S, n) ==
    IF n = 0 THEN {<<>>}
    ELSE SeqsUpTo(S, n - 1)
         \cup {Append(q, e) : q \in {r \in SeqsUpTo(S, n - 1) : Len(r) = n - 1},
                              e \in S}

CodecInputs == {BlockOf(n, txs) : n \in {0, 19000000}, txs \in SeqsUpTo(CodecTxs, MaxTxs)}

InitCodec ==
    /\ disk = [n \in Blocks |-> [zst |-> NoFile, json |-> NoFile]]
    /\ shardDirs = {}
    /\ persistedPlain = {}
    /\ ProcessInit
    /\ SetupNotRun
    /\ tally = Untallied
    /\ codecStep = "input"
    /\ codecIn \in CodecInputs
    /\ codecText = <<>>
    /\ codecOut = JsNull
    /\ codecText2 = <<>>
    /\ ConcIdle
    /\ MmNotRun

\* encode(x)
CodecEncode ==
    /\ codecStep = "input"
    /\ codecText' = Stringify(codecIn)
    /\ codecStep' = "encoded"
    /\ UNCHANGED <<codecIn, codecOut, codecText2>>
    /\ UNCHANGED <<diskVars, argVars, fetchVars, processVars, conc, mm, paths, setup>>

\* decode(encode(x))
CodecDecode ==
    /\ codecStep = "encoded"
    /\ codecOut' = JsonParse(codecText)
    /\ codecStep' = "decoded"
    /\ UNCHANGED <<codecIn, codecText, codecText2>>
    /\ UNCHANGED <<diskVars, argVars, fetchVars, processVars, conc, mm, paths, setup>>

\* encode(decode(encode(x)))
CodecReencode ==
    /\ codecStep = "decoded"
    /\ codecText2' = Stringify(codecOut)
    /\ codecStep' = "reencoded"
    /\ UNCHANGED <<codecIn, codecText, codecOut>>
    /\ UNCHANGED <<diskVars, argVars, fetchVars, processVars, conc, mm, paths, setup>>

NextCodec == CodecEncode \/ CodecDecode \/ CodecReencode

SpecCodec == InitCodec /\ [][NextCodec]_vars
(***************************************************************************)
(* Invocations that run at the same time on one cache directory, each      *)
(* calling getBlock(ConcBlock). fs.writeFileSync is not atomic: it opens   *)
(* the file truncating it, then writes its data in pieces at its own       *)
(* offset, and another process can read or write the file in between.      *)
(***************************************************************************)
\* A byte range of a file that no write has filled.
Hole == [tk |-> "hole"]

\* The file after a write of chunk at offset pos.
Overlay(bytes, pos, chunk) ==
    LET len == IF Len(bytes) > pos + Len(chunk) THEN Len(bytes)
               ELSE pos + Len(chunk)
    IN [k \in 1..len |->
          IF k > pos /\ k <= pos + Len(chunk) THEN chunk[k - pos]
          ELSE IF k <= Len(bytes) THEN bytes[k]
          ELSE Hole]

\* The end of the c-th of ConcChunks pieces of data.
ChunkEnd(data, c) == IF c >= ConcChunks THEN Len(data) ELSE (Len(data) * c) \div ConcChunks

\* The piece of data a write call at offset pos writes.
NextChunk(data, pos) ==
    LET c == CHOOSE c \in 1..ConcChunks : ChunkEnd(data, c) > pos
                                          /\ \A d \in 1..(c - 1) : ChunkEnd(data, d) <= pos
    IN SubSeq(data, pos + 1, ChunkEnd(data, c))

\* What the invocation writes into its target file.
ConcData(target) ==
    IF target = "zst" THEN ZstdCompress(Stringify(Chain(ConcBlock)))
    ELSE Stringify(Chain(ConcBlock))

ConcFile(target) ==
    IF target = "zst" THEN disk[ConcBlock].zst ELSE disk[ConcBlock].json

ConcSetFile(target, file) ==
    disk' = [disk EXCEPT ![ConcBlock] =
                IF target = "zst" THEN [@ EXCEPT !.zst = file]
                ELSE [@ EXCEPT !.json = file]]

ConcRest == UNCHANGED <<shardDirs, persistedPlain, argVars, fetchVars,
                        processVars, codecVars, mm, paths, setup>>

\* The disk probe of an invocation whose cache is ready and whose zstd
\* probe gave zstd: the compressed file first, then the legacy file.
ConcProbe(zstd, entry) ==
    LET z == ReadCompressed(entry.zst)
        j == ReadLegacy(entry.json)
    IN IF zstd /\ entry.zst.exists /\ z # JsThrow
       THEN [hit |-> TRUE, block |-> z, probe |-> "ok"]
       ELSE IF entry.json.exists /\ j # JsThrow
       THEN [hit |-> TRUE, block |-> j, probe |-> "ok"]
       ELSE [hit |-> FALSE, block |-> JsNull,
             probe |-> IF (zstd /\ entry.zst.exists) \/ entry.json.exists
                       THEN "bad" ELSE "absent"]

\* getBlock(ConcBlock) up to its return from disk or its provider call.
ConcGetBlock(p) ==
    /\ conc[p].pc = "idle"
    /\ LET probe == ConcProbe(conc[p].zstd, disk[ConcBlock]) IN
       conc' = [conc EXCEPT ![p] =
                  IF probe.hit
                  THEN [@ EXCEPT !.pc = "returned", !.result = probe.block,
                                 !.probe = probe.probe]
                  ELSE [@ EXCEPT !.pc = "request", !.probe = probe.probe]]
    /\ UNCHANGED disk
    /\ ConcRest

\* Every provider call failed: getBlock returns null.
ConcUnavailable(p) ==
    /\ conc[p].pc = "request"
    /\ conc' = [conc EXCEPT ![p] = [@ EXCEPT !.pc = "returned", !.result = JsNull]]
    /\ UNCHANGED disk
    /\ ConcRest

\* The provider call resolves with the block: the write-through begins with
\* the compressed file if zstd is available, the legacy file otherwise.
ConcProviderResolves(p) ==
    /\ conc[p].pc = "request"
    /\ conc' = [conc EXCEPT ![p] =
                  [@ EXCEPT !.pc = "open",
                            !.target = IF conc[p].zstd THEN "zst" ELSE "json"]]
    /\ UNCHANGED disk
    /\ ConcRest

\* fs.writeFileSync opens its file: the file exists and is empty.
ConcOpen(p) ==
    /\ conc[p].pc = "open"
    /\ ConcSetFile(conc[p].target, FileOf(<<>>))
    /\ conc' = [conc EXCEPT ![p] = [@ EXCEPT !.pc = "write", !.pos = 0]]
    /\ ConcRest

\* One write call of fs.writeFileSync, at the offset of this writer.
ConcWriteChunk(p) ==
    /\ conc[p].pc = "write"
    /\ LET data == ConcData(conc[p].target)
           chunk == NextChunk(data, conc[p].pos)
           pos == conc[p].pos + Len(chunk)
       IN /\ ConcSetFile(conc[p].target,
                         FileOf(Overlay(ConcFile(conc[p].target).bytes,
                                        conc[p].pos, chunk)))
          /\ conc' = [conc EXCEPT ![p] =
                        IF pos >= Len(data)
                        THEN [@ EXCEPT !.pc = "returned", !.pos = pos,
                                       !.result = Chain(ConcBlock)]
                        ELSE [@ EXCEPT !.pos = pos]]
    /\ ConcRest

\* fs.writeFileSync throws, at its open or between two write calls: after
\* the compressed file the legacy file is written, after the legacy file
\* getBlock returns the block.
ConcWriteFails(p) ==
    /\ conc[p].pc \in {"open", "write"}
    /\ conc' = [conc EXCEPT ![p] =
                  IF conc[p].target = "zst"
                  THEN [@ EXCEPT !.pc = "open", !.target = "json", !.pos = 0]
                  ELSE [@ EXCEPT !.pc = "returned",
                                 !.result = Chain(ConcBlock)]]
    /\ UNCHANGED disk
    /\ ConcRest

\* The invocation has ended and the program is invoked again.
ConcRestart(p) ==
    /\ conc[p].pc = "returned"
    /\ \E zstd \in BOOLEAN : conc' = [conc EXCEPT ![p] = ConcIdleProc(zstd)]
    /\ UNCHANGED disk
    /\ ConcRest

NextConc ==
    \E p \in Procs :
        \/ ConcGetBlock(p)
        \/ ConcUnavailable(p)
        \/ ConcProviderResolves(p)
        \/ ConcOpen(p)
        \/ ConcWriteChunk(p)
        \/ ConcWriteFails(p)
        \/ ConcRestart(p)

InitConc ==
    /\ disk = [n \in Blocks |-> [zst |-> NoFile, json |-> NoFile]]
    /\ shardDirs = Shards
    /\ persistedPlain = {}
    /\ ProcessInit
    /\ SetupNotRun
    /\ tally = Untallied
    /\ CodecIdle
    /\ conc \in [Procs -> {ConcIdleProc(zstd) : zstd \in BOOLEAN}]
    /\ MmNotRun

SpecConc == InitConc /\ [][NextConc]_vars
(***************************************************************************)
(* src/mm-extract/mm-extract.js: getBlock of the older variant, which has  *)
(* one uncompressed entry file per block and no shards.                    *)
(***************************************************************************)
\* The provider calls of one getBlock call that are followed; the loop of
\* the code has no such limit.
MaxMmCalls == 5

\* A process that has not called getBlock; ready is cacheDir.ready.
MmIdle(ready) ==
    [pc |-> "idle", ready |-> ready, n |-> 0, attempts |-> 0, calls |-> 0,
     delay |-> 0, result |-> NoResult, mem |-> {},
     files |-> [b \in Blocks |-> "absent"]]

\* getBlock(n) up to its return from a tier or its first provider call.
MmGetBlock(n) ==
    /\ mm.pc \in {"idle", "returned"}
    /\ mm' = IF n \in mm.mem
             THEN [mm EXCEPT !.pc = "returned", !.n = n, !.calls = 0,
                             !.result = Chain(n)]
             ELSE IF mm.ready /\ mm.files[n] = "ok"
             THEN [mm EXCEPT !.pc = "returned", !.n = n, !.calls = 0,
                             !.result = Chain(n), !.mem = @ \cup {n}]
             ELSE [mm EXCEPT !.pc = "request", !.n = n, !.calls = 1,
                             !.attempts = 0, !.result = NoResult]
    /\ UNCHANGED <<diskVars, argVars, fetchVars, processVars, codecVars, conc,
                   paths, setup>>

\* The provider call resolves: a block with transactions is cached, written
\* and returned; after anything else the loop test is made again with
\* attempts as it was, and the next call is sent at once.
MmProviderResolves ==
    /\ mm.pc = "request"
    /\ \E resp \in {RespBlock, RespNull, RespNoTx}, w \in WriteOutcomes :
         LET block == ResponseValue(resp, mm.n) IN
         IF IsSuccess(block)
         THEN mm' = [mm EXCEPT !.pc = "returned", !.result = block,
                               !.mem = @ \cup {mm.n},
                               !.files[mm.n] =
                                   IF ~mm.ready \/ w = "fail" THEN @
                                   ELSE IF w = "ok" THEN "ok" ELSE "bad"]
         ELSE /\ mm.attempts < MaxAttempts
              /\ mm.calls < MaxMmCalls
              /\ mm' = [mm EXCEPT !.calls = @ + 1]
    /\ UNCHANGED <<diskVars, argVars, fetchVars, processVars, codecVars, conc,
                   paths, setup>>

\* The provider call rejects: the catch block up to its await.
MmProviderRejects ==
    /\ mm.pc = "request"
    /\ mm' = [mm EXCEPT !.pc = "sleep", !.delay = 1000 * (mm.attempts + 1)]
    /\ UNCHANGED <<diskVars, argVars, fetchVars, processVars, codecVars, conc,
                   paths, setup>>

\* The timer of the catch block fires: attempts++, then the loop test.
MmBackoffDone ==
    /\ mm.pc = "sleep"
    /\ IF mm.attempts + 1 < MaxAttempts
       THEN /\ mm.calls < MaxMmCalls
            /\ mm' = [mm EXCEPT !.pc = "request", !.attempts = @ + 1,
                                !.delay = 0, !.calls = @ + 1]
       ELSE mm' = [mm EXCEPT !.pc = "returned", !.attempts = @ + 1,
                             !.delay = 0, !.result = JsNull]
    /\ UNCHANGED <<diskVars, argVars, fetchVars, processVars, codecVars, conc,
                   paths, setup>>

NextMm ==
    \/ \E n \in Blocks : MmGetBlock(n)
    \/ MmProviderResolves
    \/ MmProviderRejects
    \/ MmBackoffDone

InitMm ==
    /\ disk = [n \in Blocks |-> [zst |-> NoFile, json |-> NoFile]]
    /\ shardDirs = {}
    /\ persistedPlain = {}
    /\ ProcessInit
    /\ SetupNotRun
    /\ tally = Untallied
    /\ CodecIdle
    /\ ConcIdle
    /\ mm \in {MmIdle(ready) : ready \in BOOLEAN}
    /\ paths = [network |-> "none"]

SpecMm == InitMm /\ [][NextMm]_vars
(***************************************************************************)
(* getShardedPath: the paths of the entry files of a block. A path is the  *)
(* sequence of its components, a file name the sequence of its pieces.     *)
(***************************************************************************)
\* Block numbers on both sides of the shard boundaries.
PathBlocks == {0, 1, 999999, 1000000, 1000001, 1999999, 2000000, 19000000}

PathNetworks == {"ethereum", "linea"}

\* CACHE_DIR = path.join(baseCacheDir, network)
CACHE_DIR(network) == <<"baseCacheDir", network>>

\* getShardedPath(blockNum): shardDir, and the two file paths it returns.
ShardedPath(network, blockNum) ==
    LET shardNumber == ShardNumber(blockNum)
        shardDir == Append(CACHE_DIR(network), NatToStr(shardNumber))
        legacy == <<"block-">> \o NatToStr(blockNum) \o <<".json">>
    IN [shardDir |-> shardDir,
        compressed |-> Append(shardDir, legacy \o <<".zst">>),
        legacy |-> Append(shardDir, legacy)]

\* getBlock(x) computes the paths it probes (line 223).
PathsProbe ==
    /\ \E x \in paths.nums :
         /\ \A e \in paths.probed : e.n # x
         /\ paths' = [paths EXCEPT !.probed =
                         @ \cup {[n |-> x, at |-> ShardedPath(paths.network, x)]}]
    /\ UNCHANGED <<diskVars, argVars, fetchVars, processVars, codecVars, conc, mm, setup>>

\* The write-through of getBlock(x) computes the paths again (line 278).
PathsWrite ==
    /\ \E x \in paths.nums :
         /\ \E e \in paths.probed : e.n = x
         /\ \A e \in paths.written : e.n # x
         /\ paths' = [paths EXCEPT !.written =
                         @ \cup {[n |-> x, at |-> ShardedPath(paths.network, x)]}]
    /\ UNCHANGED <<diskVars, argVars, fetchVars, processVars, codecVars, conc, mm, setup>>

NextPaths == PathsProbe \/ PathsWrite

InitPaths ==
    /\ disk = [n \in Blocks |-> [zst |-> NoFile, json |-> NoFile]]
    /\ shardDirs = {}
    /\ persistedPlain = {}
    /\ ProcessInit
    /\ SetupNotRun
    /\ tally = Untallied
    /\ CodecIdle
    /\ ConcIdle
    /\ mm = [pc |-> "idle"]
    /\ \E network \in PathNetworks, a, b \in PathBlocks :
         paths = [network |-> network, nums |-> {a, b}, probed |-> {},
                  written |-> {}]

SpecPaths == InitPaths /\ [][NextPaths]_vars
(***************************************************************************)
(* The cache directory set-up at start-up (lines 67-97), statement by      *)
(* statement, of two invocations started at the same time on one           *)
(* CACHE_DIR. Every fs call is synchronous; the calls of the two processes *)
(* interleave.                                                             *)
(***************************************************************************)
SetupProcs == {1, 2}

\* An invocation before its try block: cacheDir as declared (lines 37-40).
SetupStart == [pc |-> "exists", ready |-> FALSE, zstdAvailable |-> FALSE]

\* The catch block of the set-up (lines 94-97): cacheDir stays not ready.
SetupFailed(inv) == [inv EXCEPT !.pc = "failed"]

\* if (!fs.existsSync(CACHE_DIR)) (line 68).
SetupExists(p) ==
    /\ setup.run /\ setup.inv[p].pc = "exists"
    /\ setup' = [setup EXCEPT !.inv[p].pc =
                    IF setup.dir THEN "validate" ELSE "mkdir"]

\* fs.mkdirSync(CACHE_DIR, { recursive: true }) (line 70): no error when the
\* directory exists by now; an error when it cannot be created.
SetupMkdir(p) ==
    /\ setup.run /\ setup.inv[p].pc = "mkdir"
    /\ setup' = IF setup.dir \/ setup.usable
                THEN [setup EXCEPT !.dir = TRUE, !.inv[p].pc = "validate"]
                ELSE [setup EXCEPT !.inv[p] = SetupFailed(@)]

\* if (!fs.existsSync(CACHE_DIR)) throw (lines 74-76).
SetupValidate(p) ==
    /\ setup.run /\ setup.inv[p].pc = "validate"
    /\ setup' = IF setup.dir
                THEN [setup EXCEPT !.inv[p].pc = "write"]
                ELSE [setup EXCEPT !.inv[p] = SetupFailed(@)]

\* fs.writeFileSync(testFile, 'test') (line 80): creates or overwrites
\* .write-test, or throws in a directory that is not writable.
SetupWriteTest(p) ==
    /\ setup.run /\ setup.inv[p].pc = "write"
    /\ setup' = IF setup.usable
                THEN [setup EXCEPT !.test = TRUE, !.inv[p].pc = "unlink"]
                ELSE [setup EXCEPT !.inv[p] = SetupFailed(@)]

\* fs.unlinkSync(testFile) (line 81): throws ENOENT when the file is gone.
SetupUnlinkTest(p) ==
    /\ setup.run /\ setup.inv[p].pc = "unlink"
    /\ setup' = IF setup.test
                THEN [setup EXCEPT !.test = FALSE, !.inv[p].pc = "zstd"]
                ELSE [setup EXCEPT !.inv[p] = SetupFailed(@)]

\* execSync('zstd --version') and both of its outcomes (lines 84-93).
SetupZstd(p) ==
    /\ setup.run /\ setup.inv[p].pc = "zstd"
    /\ \E ok \in BOOLEAN :
         setup' = [setup EXCEPT !.inv[p] =
                      [pc |-> "ready", ready |-> TRUE, zstdAvailable |-> ok]]

SetupRest ==
    UNCHANGED <<diskVars, argVars, fetchVars, processVars, codecVars, conc, mm,
                paths>>

NextSetup ==
    \E p \in SetupProcs :
       \/ SetupExists(p) /\ SetupRest
       \/ SetupMkdir(p) /\ SetupRest
       \/ SetupValidate(p) /\ SetupRest
       \/ SetupWriteTest(p) /\ SetupRest
       \/ SetupUnlinkTest(p) /\ SetupRest
       \/ SetupZstd(p) /\ SetupRest

\* CACHE_DIR exists or not, and can be created and written to or not; an
\* existing one may hold the .write-test of an invocation that was killed
\* before its unlinkSync.
InitSetup ==
    /\ disk = [n \in Blocks |-> [zst |-> NoFile, json |-> NoFile]]
    /\ shardDirs = {}
    /\ persistedPlain = {}
    /\ ProcessInit
    /\ tally = Untallied
    /\ CodecIdle
    /\ ConcIdle
    /\ MmNotRun
    /\ \E dir, usable, test \in BOOLEAN :
         /\ test => dir
         /\ setup = [run |-> TRUE, dir |-> dir, usable |-> usable,
                     test |-> test, inv |-> [p \in SetupProcs |-> SetupStart]]

SpecSetup == InitSetup /\ [][NextSetup]_vars
(***************************************************************************)
(* Properties.                                                             *)
(***************************************************************************)
\* The tokens of text from position p on start with sub.
MatchesAt(text, p, sub) ==
    /\ p + Len(sub) - 1 <= Len(text)
    /\ \A k \in 1..Len(sub) : text[p + k - 1] = sub[k]

\* The tagged object of the big integer b stands at position p of text:
\* {"type":"BigInt","value":"<decimal of b>"}.
TaggedAt(text, p, b) ==
    /\ p + 8 <= Len(text)
    /\ MatchesAt(text, p, <<Punct("{"), TokString(<<"type">>), Punct(":"),
                            TokString(BigIntTag), Punct(","),
                            TokString(<<"value">>), Punct(":")>>)
    /\ text[p + 7].tk = "string"
    /\ IsDecimal(text[p + 7].text)
    /\ text[p + 7].text # <<>>
    /\ DecimalToInt(text[p + 7].text) = b
    /\ text[p + 8] = Punct("}")

\* The member "key": <tagged b> occurs in text.
HasTaggedMember(text, key, b) ==
    \E p \in 1..Len(text) :
        /\ MatchesAt(text, p, <<TokString(<<key>>), Punct(":")>>)
        /\ TaggedAt(text, p + 2, b)

CodecInTxs == GetProp(codecIn, "transactions").items

\* C8: for every block record x with big-integer fields, decode(encode(x))
\* has every such field as a BigInt of the same value, encode(decode(
\* encode(x))) is the same text as encode(x), and the text holds every
\* big-integer field as the tagged object with its decimal string and no
\* number literal other than those of the plain number fields.
C8_CodecRoundTrip ==
    /\ codecStep \in {"encoded", "decoded", "reencoded"} =>
          /\ ~StringifyThrows(codecText)
          /\ HasTaggedMember(codecText, "number", GetProp(codecIn, "number").int)
          /\ \A k \in 1..Len(CodecInTxs) : \A f \in {"value", "nonce"} :
                HasTaggedMember(codecText, f, GetProp(CodecInTxs[k], f).int)
          /\ Cardinality({p \in 1..Len(codecText) : codecText[p].tk = "number"})
                = Len(CodecInTxs)
    /\ codecStep \in {"decoded", "reencoded"} =>
          /\ GetProp(codecOut, "number") = GetProp(codecIn, "number")
          /\ GetProp(codecOut, "transactions").jt = "array"
          /\ Len(GetProp(codecOut, "transactions").items) = Len(CodecInTxs)
          /\ \A k \in 1..Len(CodecInTxs) : \A f \in {"value", "nonce"} :
                /\ GetProp(GetProp(codecOut, "transactions").items[k], f).jt = "bigint"
                /\ GetProp(GetProp(codecOut, "transactions").items[k], f).int
                      = GetProp(CodecInTxs[k], f).int
    /\ codecStep = "reencoded" => codecText2 = codecText

\* A record with two transactions, one of them a contract creation and one
\* carrying the widest value, has gone through encode, decode and encode.
C8_Witness ==
    /\ codecStep = "reencoded"
    /\ Len(CodecInTxs) = 2
    /\ GetProp(CodecInTxs[1], "to") = JsNull
    /\ GetProp(CodecInTxs[2], "value") = JsBigInt(2147483647)
    /\ GetProp(CodecInTxs[1], "value") = JsBigInt(-45)
Min(a, b) == IF a < b THEN a ELSE b

\* lo, lo+1, ..., hi
Ascending(lo, hi) == [k \in 1..(hi - lo + 1) |-> lo + k - 1]

\* The process has resolved its range and entered the block loop.
InLoop == pc \notin {"start", "head", "exit1"}

\* C1: when N is in neither tier and every provider call for N fails,
\* getBlock makes exactly 3 provider calls, returns null without throwing,
\* and main emits no address line for N.
C1_ThreeCallsThenNull ==
    (/\ call.src \in {"unavailable", "threw"}
     /\ ~call.mem /\ call.zst = "absent" /\ call.json = "absent")
    => /\ call.src = "unavailable"
       /\ call.calls = 3
       /\ results[call.n] = JsNull
       /\ call.lines = 0

\* C2: whatever the provider and the disk do for each block, main calls
\* getBlock for every block number start..end and then completes normally.
C2_RunCompletesRange ==
    (InLoop /\ pc \notin {"loop", "request", "sleepEmpty", "sleepRateLimit",
                          "sleepBackoff"})
    => /\ pc = "done"
       /\ processed = Ascending(start.n, end.n)

\* Sender, then recipient when there is one.
SenderRecipient(tx) ==
    IF GetProp(tx, "to") \in {JsNull, JsUndefined} THEN <<GetProp(tx, "from")>>
    ELSE <<GetProp(tx, "from"), GetProp(tx, "to")>>

RECURSIVE Concat(_)
Concat(seqs) == IF seqs = <<>> THEN <<>> ELSE Head(seqs) \o Concat(Tail(seqs))

\* The lines of what getBlock gave: nothing unless it is a block.
BlockLines(b) ==
    IF b.jt # "object" THEN <<>>
    ELSE Concat([k \in 1..Len(GetProp(b, "transactions").items) |->
                    SenderRecipient(GetProp(b, "transactions").items[k])])

\* C3: the lines on stdout are the concatenation, over start..end ascending,
\* of the sender and (if present) recipient of every transaction, in order,
\* of every block getBlock returned; nothing is deduplicated and an
\* unavailable block or one without transactions adds nothing.
C3_OutputIsConcatenation ==
    InLoop => out = Concat([k \in 1..(end.n - start.n + 1) |->
                               BlockLines(results[start.n + k - 1])])

\* The run over 0..2 is complete: block 1 has no transactions, block 2 a
\* contract creation and an address that occurs twice.
C3_Witness ==
    /\ pc = "done"
    /\ processed = <<0, 1, 2>>
    /\ \A n \in 0..2 : results[n] = Chain(n)
    /\ out = <<AddrA, AddrB, AddrC, AddrA, AddrC>>

\* C10 as stated: a run for a valid "A-B" with A <= B processes exactly
\* A, A+1, ..., B.
C10_ExactRange ==
    \A a, b \in ArgNums :
        (range = PairArg(a, b) /\ a <= b /\ pc = "done")
        => processed = Ascending(a, b)

\* C10, amended: for a valid "A-B" with A <= B and observed head H, getBlock
\* is called on min(A,H), min(A,H)+1, ... in ascending order, each once and
\* none skipped, never beyond min(B,H); a run that reaches the end of its
\* loop has processed exactly min(A,H)..min(B,H), which is A..B (B-A+1
\* numbers) when B <= H.
C10_ClampedRange ==
    \A a, b \in ArgNums :
        (range = PairArg(a, b) /\ a <= b /\ InLoop)
        => LET lo == Min(a, latestBlock)
               hi == Min(b, latestBlock)
           IN /\ Len(processed) <= hi - lo + 1
              /\ \A k \in 1..Len(processed) : processed[k] = lo + k - 1
              /\ pc = "done" => processed = Ascending(lo, hi)
              /\ (pc = "done" /\ b <= latestBlock)
                    => /\ processed = Ascending(a, b)
                       /\ Len(processed) = b - a + 1

\* The run for "0-2" under head 2 is complete.
C10_Witness ==
    /\ pc = "done"
    /\ range = PairArg(0, 2)
    /\ latestBlock = 2
    /\ processed = <<0, 1, 2>>

\* C4 as stated: with N not in memory, a decodable disk entry in either
\* representation is returned and no provider call is made, whatever the
\* compressor availability of the run.
C4_DiskBeforeRemote ==
    (call.n \in Blocks /\ ~call.mem /\ (call.zst = "ok" \/ call.json = "ok"))
    => /\ call.src \in {"disk-zst", "disk-json"}
       /\ call.calls = 0

\* C4, amended: in a run whose disk cache is ready, with N not in memory, a
\* legacy entry that decodes, or a compressed entry that decodes while zstd
\* was detected in this run, is returned from disk and no provider call is
\* made for N.
C4_ReadableDiskBeforeRemote ==
    (/\ call.n \in Blocks /\ ~call.mem /\ cacheDir.ready
     /\ (call.json = "ok" \/ (cacheDir.zstdAvailable /\ call.zst = "ok")))
    => /\ call.src \in {"disk-zst", "disk-json"}
       /\ call.calls = 0
       /\ results[call.n] = Chain(call.n)

\* With zstd detected, the compressed entry failed to decode and the block
\* came from the legacy entry.
C4_Witness ==
    /\ call.n \in Blocks /\ ~call.mem
    /\ cacheDir.zstdAvailable
    /\ call.zst = "bad" /\ call.json = "ok"
    /\ call.src = "disk-json" /\ call.calls = 0

\* C5: once block N is resident in memory, a later getBlock(N) returns the
\* resident block, reads no cache file and makes no provider call.
C5_MemoryHitNoIO ==
    (call.n \in Blocks /\ call.mem)
    => /\ call.src = "memory"
       /\ call.calls = 0
       /\ call.reads = 0
       /\ results[call.n] = memCache[call.n]

\* A second getBlock of a block that the first call fetched or read.
C5_Witness ==
    /\ call.n \in Blocks /\ call.mem /\ call.src = "memory"
    /\ Len(processed) >= 2

\* C6 as stated: once an entry file of N exists, its content never changes.
C6_NeverRewritten ==
    [][\A n \in Blocks :
          /\ disk[n].zst.exists => disk'[n].zst = disk[n].zst
          /\ disk[n].json.exists => disk'[n].json = disk[n].json]_vars

\* C6, amended: an entry file that exists is never deleted, and is never
\* rewritten while its content decodes; an entry that does not decode is
\* overwritten by the write-through of a later successful fetch of N.
C6_DecodableNeverRewritten ==
    [][\A n \in Blocks :
          /\ disk'[n].zst # disk[n].zst =>
                \/ ~disk[n].zst.exists
                \/ /\ disk'[n].zst.exists
                   /\ ReadCompressed(disk[n].zst) = JsThrow
          /\ disk'[n].json # disk[n].json =>
                \/ ~disk[n].json.exists
                \/ /\ disk'[n].json.exists
                   /\ ReadLegacy(disk[n].json) = JsThrow]_vars

\* A run without zstd fetched N although a decodable compressed entry of N
\* existed, and wrote a legacy entry beside it.
C6_Witness ==
    /\ call.n \in Blocks /\ call.src = "remote" /\ call.zst = "ok"
    /\ ReadCompressed(disk[call.n].zst) = Chain(call.n)
    /\ disk[call.n].json.exists

\* C7: in one run memCache.set(N, ...) is executed at most once for every N,
\* and an entry of the memory tier is never removed or replaced.
C7_MemoryWriteOnce ==
    /\ [](\A n \in Blocks : memSets[n] <= 1)
    /\ [][\A n \in DOMAIN memCache :
             /\ n \in DOMAIN memCache'
             /\ memCache'[n] = memCache[n]]_vars

\* The same block was asked for twice in one run and set once.
C7_Witness ==
    /\ Len(processed) >= 2
    /\ processed[1] = processed[2]
    /\ memSets[processed[1]] = 1
    /\ call.src = "memory"

\* C9 as stated: a block that a run without zstd fetched and persisted is
\* returned by a later run with zstd from the legacy entry, with the same
\* content and without a provider call.
C9_LegacyEntryServes ==
    (call.n \in persistedPlain /\ cacheDir.zstdAvailable /\ ~call.mem)
    => /\ call.src = "disk-json"
       /\ call.calls = 0
       /\ results[call.n] = Chain(call.n)

\* C9, amended: such a block is returned by a later run with zstd from disk,
\* with the same content and without a provider call; it is read from the
\* legacy entry unless a decodable compressed entry of N exists as well,
\* which is then the one read.
C9_PersistedEntryServes ==
    (call.n \in persistedPlain /\ cacheDir.zstdAvailable /\ ~call.mem)
    => /\ call.calls = 0
       /\ results[call.n] = Chain(call.n)
       /\ \/ call.src = "disk-json" /\ call.zst # "ok"
          \/ call.src = "disk-zst" /\ call.zst = "ok"

\* A run with zstd returned from the legacy entry a block that a run
\* without zstd had persisted.
C9_Witness ==
    /\ call.n \in persistedPlain
    /\ cacheDir.zstdAvailable
    /\ call.src = "disk-json"
    /\ results[call.n] = Chain(call.n)
LatestKeyword == <<"l", "a", "t", "e", "s", "t">>

\* The process got past the network and key checks.
ChecksRange == pc # "start" /\ abort \notin {"network", "key"}

\* C11 as stated: the ranges "latest" and "A-latest" are accepted, the head
\* is queried once, and every latest endpoint becomes the observed head.
C11_LatestResolvesToHead ==
    (ChecksRange /\ range \in {LatestKeyword, <<"0", "-">> \o LatestKeyword})
    => /\ abort # "range"
       /\ InLoop => /\ headQueries = 1
                    /\ end.n = latestBlock
                    /\ range = LatestKeyword => start.n = latestBlock

\* C11, amended: the keyword is max, in any letter case. For "max" and
\* "A-max" the head is queried exactly once, "max" resolves to start = end =
\* head, and "A-max" resolves its end to the head that A is compared with
\* (start = min(A, head)). The head is queried exactly once in every run
\* that passes the start-up checks; "latest" and "A-latest" are rejected.
C11_MaxResolvesToHead ==
    /\ (ChecksRange /\ abort # "range") => headQueries = 1
    /\ (pc # "start" /\ abort \in {"network", "key", "range"})
          => headQueries = 0
    /\ (ChecksRange /\ range \in {MaxKeyword, <<"M", "A", "X">>})
          => /\ abort # "range"
             /\ InLoop => start.n = latestBlock /\ end.n = latestBlock
    /\ \A a \in ArgNums :
          (ChecksRange /\ range = IntToStr(a) \o <<"-">> \o MaxKeyword)
          => /\ abort # "range"
             /\ InLoop => /\ end.n = latestBlock
                          /\ start.n = Min(a, latestBlock)
    /\ (ChecksRange /\ range \in {LatestKeyword, <<"0", "-">> \o LatestKeyword})
          => abort = "range"

\* "1-max" under head 2 has resolved to 1..2.
C11_Witness ==
    /\ range = <<"1", "-">> \o MaxKeyword
    /\ InLoop
    /\ headQueries = 1
    /\ latestBlock = 2 /\ start.n = 1 /\ end.n = 2
\* C12: in every run that reaches the block loop, start <= end when the
\* loop begins and from then on, for every accepted range form and every
\* head, after max substitution and clamping.
C12_StartAtMostEnd ==
    InLoop => /\ start.k = "num" /\ end.k = "num"
              /\ start.n <= end.n

\* "3-max" under head 2: the start was clamped to the head the end resolved
\* to.
C12_Witness ==
    /\ range = <<"3", "-">> \o MaxKeyword
    /\ pc = "loop" /\ processed = <<>>
    /\ latestBlock = 2 /\ start.n = 2 /\ end.n = 2
\* The process has ended: main returned, process.exit(1) was called, or
\* main's promise rejected.
Ended == pc \in {"done", "exit1", "crashed"}

\* C13: a concrete endpoint above the observed head is replaced by the head
\* with a warning on stderr, no block number above the head is requested,
\* and the run processes the clamped range and ends with exit code 0.
C13_ClampedRunCompletes ==
    \A a, b \in ArgNums :
        (range = PairArg(a, b) /\ a <= b /\ b > latestBlock /\ InLoop)
        => /\ end.n = latestBlock /\ WarnEndLine \in diag
           /\ a > latestBlock => start.n = latestBlock /\ WarnStartLine \in diag
           /\ a <= latestBlock => start.n = a /\ WarnStartLine \notin diag
           /\ \A k \in 1..Len(processed) : processed[k] <= latestBlock
           /\ Ended => /\ pc = "done"
                       /\ processed = Ascending(start.n, end.n)
\* C14: a run aborted for a malformed range, an unsupported network or a
\* missing key exits with code 1 having made no provider call (no head
\* query, no block fetch) and having written nothing to stdout.
C14_AbortBeforeNetwork ==
    (pc # "start" /\ abort \in {"network", "key", "range"})
    => /\ pc = "exit1"
       /\ headQueries = 0
       /\ processed = <<>> /\ call = NoCall
       /\ out = <<>>

\* The range argument "abc" was rejected.
C14_Witness ==
    /\ range = <<"a", "b", "c">>
    /\ abort = "range" /\ pc = "exit1"
    /\ headQueries = 0 /\ out = <<>>
\* A non-empty run of decimal digits.
IsNonNegInt(cs) == cs # <<>> /\ \A k \in 1..Len(cs) : IsDigit(cs[k])

\* A side of a range as the claim admits it: a non-negative integer or the
\* keyword (taken as the program's keyword, max, in any letter case).
IsSide(cs) == IsNonNegInt(cs) \/ ToLowerCase(cs) = MaxKeyword

DashCount(cs) == Cardinality({k \in 1..Len(cs) : cs[k] = "-"})

\* The range arguments C15 says are accepted.
ClaimAccepts(cs) ==
    IF DashCount(cs) = 0 THEN IsSide(cs)
    ELSE /\ DashCount(cs) = 1
         /\ IsSide(SplitHead(cs)) /\ IsSide(AfterDash(cs))
         /\ (IsNonNegInt(SplitHead(cs)) /\ IsNonNegInt(AfterDash(cs)))
               => DigitsToNat(SplitHead(cs)) <= DigitsToNat(AfterDash(cs))

\* C15: a range argument is accepted exactly when each side is a
\* non-negative integer or the keyword and, when both sides are integers,
\* start <= end; every other range argument is rejected.
C15_AcceptedExactly ==
    ChecksRange => (abort # "range" <=> ClaimAccepts(range))
\* The range holds the keyword, so that its resolution needs the head.
NeedsHead(cs) ==
    ToLowerCase(cs) = MaxKeyword \/ ToLowerCase(AfterDash(cs)) = MaxKeyword

\* C16: a run ends with exit code 1 only for an argument validation failure,
\* a missing key, or a failed head query when the range needs the head;
\* every other run completes its range and ends with exit code 0.
C16_ExitCodes ==
    Ended => \/ /\ pc = "exit1"
                /\ \/ abort \in {"network", "key", "range"}
                   \/ abort = "head" /\ NeedsHead(range)
             \/ /\ pc = "done"
                /\ abort = "none"
                /\ processed = Ascending(start.n, end.n)
\* The addresses that occur as sender or recipient in the provider's blocks.
ChainAddresses ==
    UNION {{GetProp(tx, f) : f \in {"from", "to"}} \ {JsNull, JsUndefined} :
           tx \in UNION {{GetProp(Chain(n), "transactions").items[k] :
                             k \in 1..Len(GetProp(Chain(n), "transactions").items)} :
                         n \in Blocks}}

DiagnosticLines == {DebugLine, ErrorLine, WarnStartLine, WarnEndLine}

\* C17: stdout receives only extracted addresses and stderr only
\* diagnostics: no diagnostic line is on stdout and no address on stderr.
C17_StreamsSeparate ==
    /\ \A k \in 1..Len(out) :
          out[k] \in ChainAddresses /\ out[k] \notin DiagnosticLines
    /\ \A l \in diag : l \in DiagnosticLines /\ l \notin ChainAddresses

\* A run that clamped its end, met an error and extracted addresses.
C17_Witness ==
    /\ WarnEndLine \in diag /\ ErrorLine \in diag /\ DebugLine \in diag
    /\ Len(out) >= 2
    /\ pc = "done"
\* C18: a provider response that is a block with a transactions collection,
\* an empty one included, is cached in memory, written through and returned
\* with no further attempt; a null response or an object without
\* transactions is cached nowhere and consumes one attempt.
C18_SuccessExactlyWithTransactions ==
    /\ response = "block"
          => /\ call.src = "remote" /\ pc \in {"loop", "done"}
             /\ results[call.n] = Chain(call.n)
             /\ call.n \in DOMAIN memCache /\ memCache[call.n] = Chain(call.n)
             /\ cacheDir.ready => call.n \in writeTried
             /\ attempts = call.calls - 1
    /\ response \in {"null", "no-transactions"}
          => /\ pc = "sleepEmpty"
             /\ call.n \notin DOMAIN memCache
             /\ ~disk[call.n].zst.exists /\ ~disk[call.n].json.exists
             /\ call.n \notin writeTried
             /\ attempts = call.calls

\* The block without transactions was fetched, cached and returned.
C18_Witness ==
    /\ response = "block" /\ call.src = "remote"
    /\ GetProp(results[call.n], "transactions").items = <<>>
    /\ memCache[call.n] = results[call.n]
    /\ disk[call.n].zst.exists

\* C19: a fetched block is in the memory tier and returned whether or not
\* its disk write succeeded; a shard directory or file write failure leaves
\* the disk tier on, and the write of every later fetched block is attempted.
C19_WriteFailureNotFatal ==
    /\ [](\A n \in Blocks :
            results[n] \notin {NotCalled, JsNull, JsThrow}
            => /\ n \in DOMAIN memCache /\ memCache[n] = results[n]
               /\ results[n] = Chain(n)
               /\ cacheDir.ready => n \in writeTried)
    /\ [][pc # "start" /\ pc' # "start" => cacheDir' = cacheDir]_vars

\* The write of block 0 left no file, block 0 was returned all the same, and
\* block 1 was then fetched and written.
C19_Witness ==
    /\ cacheDir.ready
    /\ results[0] = Chain(0) /\ ~disk[0].zst.exists /\ ~disk[0].json.exists
    /\ results[1] = Chain(1) /\ (disk[1].zst.exists \/ disk[1].json.exists)
    /\ writeTried = {0, 1}
\* C20: with invocations running at the same time on one cache directory
\* and writes that are not atomic, getBlock(N) never returns a block that
\* differs from the provider's block N: an entry that is partly written or
\* being overwritten is a miss, after which the block is fetched.
C20_NoCorruptedRead ==
    \A p \in Procs :
        /\ conc[p].result \in {NoResult, JsNull, Chain(ConcBlock)}
        /\ (conc[p].probe = "ok" /\ conc[p].pc = "returned")
              => conc[p].result = Chain(ConcBlock)

\* An invocation found an entry it could not decode while the other one was
\* writing it, fetched the block itself and returned it.
C20_Witness ==
    \E p, q \in Procs :
        /\ p # q
        /\ conc[p].probe = "bad" /\ conc[p].result = Chain(ConcBlock)
        /\ conc[q].pc = "write"
        /\ \E k \in 1..Len(ConcFile(conc[q].target).bytes) :
              ConcFile(conc[q].target).bytes[k] = Hole

\* C21: after the n-th failed attempt of a fetch, when that attempt gave an
\* empty or invalid block, the wait before the next step is
\* min(30 s, 1 s * 2^(n-1)): 1 s after the first, doubling thereafter.
C21_EmptyWaitFromOneSecond ==
    pc = "sleepEmpty" =>
        /\ waited.class = "empty"
        /\ delay = Min(30000, 1000 * 2 ^ (call.calls - 1))
        /\ waited.total = delay

\* C21, as the code has it: attempts is incremented before the delay is
\* computed, so the wait after the n-th failed attempt is
\* min(30 s, 1 s * 2^n): 2 s, 4 s, 8 s, and no other timer is set.
C21_EmptyWaitFromTwoSeconds ==
    pc = "sleepEmpty" =>
        /\ waited.class = "empty"
        /\ attempts = call.calls
        /\ delay = Min(30000, 1000 * 2 ^ call.calls)
        /\ waited.total = delay

\* The third attempt of a fetch gave an empty block, and the wait is 8 s.
C21_Witness ==
    /\ pc = "sleepEmpty" /\ call.calls = 3
    /\ response \in {"null", "no-transactions"}
    /\ delay = 8000

\* C22: after the n-th failed attempt of a fetch, when that attempt failed
\* with status 429 or 529, the timers set before the next attempt add up to
\* min(60 s, 5 s * 2^(n-1)) and no other delay is added.
C22_RateLimitWaitAlone ==
    (waited.class = "rate-limit" /\ pc = "sleepBackoff") =>
        waited.total = Min(60000, 5000 * 2 ^ (call.calls - 1))

\* C23: after the n-th failed attempt of a fetch, when that attempt failed
\* with an error that is no rate-limit signal, a wait of
\* min(30 s, 1 s * 2^(n-1)) follows before the next attempt: 1 s, 2 s, 4 s.
C23_ErrorWaitThenRetry ==
    waited.class = "error" =>
        /\ pc = "sleepBackoff"
        /\ delay = Min(30000, 1000 * 2 ^ (call.calls - 1))
        /\ waited.total = delay

\* C24: in mm-extract.js, getBlock(N) makes at most 3 provider calls for N
\* and then returns null, whatever mix of thrown errors and empty or invalid
\* responses the provider gives.
C24_MmThreeCallsThenNull ==
    /\ mm.pc \in {"request", "sleep", "returned"} => mm.calls <= MaxAttempts
    /\ (mm.pc = "returned" /\ mm.result = JsNull) => mm.calls = MaxAttempts

\* C25: a shard directory is created only by the write of a successful
\* fetch: a getBlock call that ends in a disk hit or in an unavailable
\* block, or one of a run whose disk cache is not ready, creates none.
C25_ShardDirOnlyOnWrite ==
    [][shardDirs' # shardDirs =>
          /\ pc = "request" /\ response' = "block"
          /\ cacheDir.ready]_vars

\* The entries whose paths have been computed.
PathEntries == paths.probed \cup paths.written

\* C26: every read and write for block N addresses the directory
\* <cache-root>/<network>/floor(N / 1,000,000) and the file names
\* block-N.json.zst and block-N.json; two block numbers share a directory
\* exactly when their quotients by 1,000,000 are equal; reads and writes of
\* one N address the same paths.
C26_ShardedLayout ==
    paths.network # "none" =>
        /\ \A e \in PathEntries :
              LET dir == <<"baseCacheDir", paths.network,
                           NatToStr(e.n \div 1000000)>>
                  name == <<"block-">> \o NatToStr(e.n)
              IN /\ e.at.shardDir = dir
                 /\ e.at.compressed = Append(dir, name \o <<".json", ".zst">>)
                 /\ e.at.legacy = Append(dir, name \o <<".json">>)
        /\ \A e, f \in PathEntries :
              (e.at.shardDir = f.at.shardDir)
                 <=> (e.n \div 1000000 = f.n \div 1000000)
        /\ \A e \in paths.probed, f \in paths.written :
              e.n = f.n => e.at = f.at

\* Blocks 999999 and 1000000 have both been probed and written, in
\* different directories, and 1000000 shares its directory with 1000001.
C26_Witness ==
    /\ paths.network # "none"
    /\ \E e, f \in paths.written :
          /\ e.n = 999999 /\ f.n = 1000000
          /\ e.at.shardDir # f.at.shardDir
          /\ e.at.legacy = <<"baseCacheDir", paths.network, <<"0">>,
                             <<"block-", "9", "9", "9", "9", "9", "9", ".json">>>>
          /\ f.at.shardDir = ShardedPath(paths.network, 1000001).shardDir

\* What C27 says of the compressor flag: it is set at start-up and never
\* changes; without it no compressed file is read or written; and the only
\* reasons a run aborts for are the network, the key, the range and the head.
CompressorProbedOnce ==
    /\ [](/\ (pc # "start" /\ ~cacheDir.zstdAvailable) =>
                /\ call.src # "disk-zst"
                /\ call.reads <= (IF call.json = "absent" THEN 0 ELSE 1)
          /\ pc = "exit1" => abort \in {"network", "key", "range", "head"})
    /\ [][/\ (pc # "start" /\ pc' # "start") => cacheDir' = cacheDir
          /\ \A n \in Blocks :
                disk'[n].zst # disk[n].zst => cacheDir.zstdAvailable]_vars

\* C27: compressor availability is determined once at start-up and never
\* changes; when it is unavailable no compressed file is read or written
\* and the run is not aborted; when it is available a successful fetch
\* writes exactly one representation, the compressed file, or the
\* uncompressed file only if compressing or writing the compressed file
\* failed.
C27_OneRepresentation ==
    /\ CompressorProbedOnce
    /\ [][\A n \in Blocks :
             ~(disk'[n].zst # disk[n].zst /\ disk'[n].json # disk[n].json)]_vars

\* C27, as the code has it: the flag part as stated; a successful fetch
\* leaves at most one complete representation, the compressed one unless
\* its write threw, but a compressed write that threw part-way leaves a
\* truncated compressed file beside the uncompressed file of the fallback.
C27_OneCompleteRepresentation ==
    /\ CompressorProbedOnce
    /\ [][\A n \in Blocks :
             /\ (cacheDir.zstdAvailable /\ disk'[n].json # disk[n].json) =>
                   ReadCompressed(disk'[n].zst) = JsThrow
             /\ (disk'[n].zst # disk[n].zst /\ disk'[n].json # disk[n].json) =>
                   /\ disk'[n].zst.bytes = Truncated(ZstdCompress(Stringify(Chain(n))))
                   /\ ReadLegacy(disk'[n].json) \in {Chain(n), JsThrow}]_vars

\* A run with zstd fetched a block that had no entry file: its compressed
\* write threw part-way and the fallback wrote the uncompressed file, so the
\* fetch left two files.
C27_Witness ==
    /\ cacheDir.ready /\ cacheDir.zstdAvailable
    /\ call.n \in Blocks /\ call.src = "remote"
    /\ call.zst = "absent" /\ call.json = "absent"
    /\ disk[call.n].zst.exists /\ ReadCompressed(disk[call.n].zst) = JsThrow
    /\ ReadLegacy(disk[call.n].json) = Chain(call.n)

\* C28: in the disk probe of getBlock(N) with the compressor available the
\* compressed file is tried first; if it is absent or does not decode the
\* uncompressed file is tried; if that is absent or does not decode the
\* provider is called. A decode failure never throws out of getBlock and
\* puts nothing in the memory tier.
C28_ProbeFallsThrough ==
    /\ []((/\ call.n \in Blocks /\ ~call.mem
           /\ cacheDir.ready /\ cacheDir.zstdAvailable) =>
             /\ call.zst = "ok" =>
                   call.src = "disk-zst" /\ call.reads = 1 /\ call.calls = 0
             /\ (call.zst # "ok" /\ call.json = "ok") =>
                   /\ call.src = "disk-json" /\ call.calls = 0
                   /\ call.reads = (IF call.zst = "bad" THEN 2 ELSE 1)
             /\ (call.zst # "ok" /\ call.json # "ok") =>
                   /\ call.src \in {"pending", "remote", "unavailable", "threw"}
                   /\ call.calls >= 1
                   /\ call.reads = (IF call.zst = "bad" THEN 1 ELSE 0)
                                   + (IF call.json = "bad" THEN 1 ELSE 0))
    /\ [][processed' # processed =>
             /\ pc' # "crashed" /\ call'.src # "threw"
             /\ call'.src = "pending" =>
                   memCache' = memCache /\ memSets' = memSets
             /\ call'.src \in {"disk-zst", "disk-json"} =>
                   /\ memCache'[call'.n] = Chain(call'.n)
                   /\ memSets'[call'.n] = memSets[call'.n] + 1]_vars

\* With zstd detected, neither entry file of the block decoded: both were
\* read, the memory tier was left empty and the provider was called.
C28_Witness ==
    /\ cacheDir.ready /\ cacheDir.zstdAvailable
    /\ call.n \in Blocks /\ ~call.mem
    /\ call.zst = "bad" /\ call.json = "bad"
    /\ call.reads = 2 /\ call.src = "pending" /\ call.calls = 1
    /\ memCache = EmptyMap

\* A timer or a provider call of getBlock is pending.
InGetBlock == pc \in {"request", "sleepEmpty", "sleepRateLimit", "sleepBackoff"}

\* C29: at every moment of a run at most one provider call is in flight and
\* one block number is being processed: the cache lookup, the retries and
\* their waits, the cache write and the emission of the addresses of block
\* i are complete before getBlock(i+1) starts.
C29_OneBlockAtATime ==
    /\ [](/\ InGetBlock =>
                /\ call.src = "pending" /\ call.n = blockNumber
                /\ processed # <<>> /\ processed[Len(processed)] = blockNumber
                /\ results[blockNumber] = NotCalled
          /\ \A k \in 1..(Len(processed) - 1) :
                results[processed[k]] # NotCalled)
    /\ [][processed' # processed =>
             /\ ~InGetBlock /\ call.src # "pending" /\ delay = 0
             /\ processed' = Append(processed, i)
             /\ \A k \in 1..Len(processed) :
                   /\ results[processed[k]] # NotCalled
                   /\ processed[k] = i - (Len(processed) - k + 1)
             /\ out = Concat([k \in 1..Len(processed) |->
                                 BlockLines(results[processed[k]])])
             /\ (call.src = "remote" /\ cacheDir.ready) =>
                   call.n \in writeTried]_vars

\* Block 0 was given up after three provider calls and their waits; block 1
\* was fetched, written and emitted; the provider call for block 2 is the
\* only one in flight.
C29_Witness ==
    /\ processed = <<0, 1, 2>> /\ pc = "request"
    /\ results[0] = JsNull /\ results[1] = Chain(1) /\ results[2] = NotCalled
    /\ cacheDir.ready /\ writeTried = {1}
    /\ call.n = 2 /\ call.calls = 1
    /\ out = BlockLines(Chain(1))

\* C30: the attempt counter and the backoff of a fetch belong to one
\* getBlock call: every block that reaches the remote tier starts with 0
\* attempts used, has all three attempts and the first delays, whatever
\* failures the blocks before it consumed.
C30_AttemptsPerCall ==
    /\ [](/\ InGetBlock =>
                /\ attempts = (IF pc = "sleepEmpty" THEN call.calls
                               ELSE call.calls - 1)
                /\ call.calls \in 1..MaxAttempts
                /\ (call.calls = 1 /\ pc = "sleepBackoff") =>
                      delay = BackoffDelay(0)
                /\ (call.calls = 1 /\ pc = "sleepRateLimit") =>
                      delay = RateLimitDelay(0)
                /\ (call.calls = 1 /\ pc = "sleepEmpty") =>
                      delay = BackoffDelay(1)
          /\ call.src = "unavailable" => call.calls = MaxAttempts)
    /\ [][(processed' # processed /\ pc' = "request") =>
             /\ attempts' = 0 /\ call'.calls = 1
             /\ delay' = 0 /\ waited' = NoWait]_vars

\* Block 0 was given up after three failed attempts; block 1 is waiting
\* one second after its first failed attempt, with no attempt counted yet.
C30_Witness ==
    /\ processed = <<0, 1>> /\ results[0] = JsNull
    /\ pc = "sleepBackoff" /\ call.n = 1 /\ call.calls = 1
    /\ attempts = 0 /\ delay = 1000

Terminated == pc \in {"done", "exit1", "crashed"}

\* C32: when every provider call settles and every timer fires, every run
\* over a resolved range ends, and the provider calls it makes, the head
\* query and the block requests, number at most 1 + 3 * (end - start + 1).
C32_TerminatesWithinBudget ==
    /\ <>Terminated
    /\ [](tally.on =>
             /\ headQueries <= 1
             /\ ~InLoop => tally.n = 0
             /\ InLoop =>
                   /\ tally.n <= MaxAttempts * Len(processed)
                   /\ Len(processed) <= end.n - start.n + 1
                   /\ headQueries + tally.n
                         <= 1 + MaxAttempts * (end.n - start.n + 1))

\* The run over 0..1 has ended with both blocks unavailable: one head query
\* and six block requests, which is 1 + 3 * 2.
C32_Witness ==
    /\ tally.on /\ pc = "done"
    /\ start.n = 0 /\ end.n = 1
    /\ results[0] = JsNull /\ results[1] = JsNull
    /\ headQueries = 1 /\ tally.n = MaxAttempts * 2

\* Both set-ups are over.
SetupsOver == \A p \in SetupProcs : setup.inv[p].pc \in {"ready", "failed"}

\* C33: two invocations that set up the same creatable and writable cache
\* directory at the same time both end with cacheDir.ready; the .write-test
\* probe of one never fails the set-up of the other.
C33_BothSetupsReady ==
    (setup.run /\ setup.usable /\ SetupsOver) =>
        \A p \in SetupProcs : setup.inv[p].ready

\* The set-up of this run was reached and failed.
SetupFailedRun == pc # "start" /\ abort # "network" /\ ~cacheDir.ready

\* C34: a run whose cache directory set-up failed is not aborted by it; its
\* disk cache stays not ready, it reads and writes no entry file, and every
\* block it is given comes from the provider (or memory), so that stdout
\* holds the lines of the provider's blocks as in a run on an empty cache.
C34_SetupFailureRunsDiskless ==
    /\ [](SetupFailedRun =>
             /\ pc = "exit1" => abort \in {"key", "range", "head"}
             /\ writeTried = {}
             /\ call.n \in Blocks =>
                   /\ call.reads = 0
                   /\ call.src \in {"pending", "memory", "remote",
                                    "unavailable", "threw"}
             /\ InLoop =>
                   /\ \A n \in Blocks :
                         results[n] \in {NotCalled, JsNull, JsThrow, Chain(n)}
                   /\ out = Concat([k \in 1..(end.n - start.n + 1) |->
                                       BlockLines(results[start.n + k - 1])]))
    /\ [][(SetupFailedRun /\ pc' # "start") =>
             /\ ~cacheDir'.ready
             /\ disk' = disk
             /\ persistedPlain' = persistedPlain]_vars

\* A run whose set-up failed, on a directory that holds a decodable legacy
\* entry of its block, fetched the block and wrote its lines.
C34_Witness ==
    /\ SetupFailedRun /\ pc = "done"
    /\ call.n \in Blocks /\ call.json = "ok" /\ ~call.mem
    /\ call.src = "remote" /\ call.reads = 0 /\ call.calls = 1
    /\ results[call.n] = Chain(call.n)
    /\ out = BlockLines(Chain(call.n)) /\ out # <<>>

\* The lines of the provider's block n: sender, then recipient, of each of
\* its transactions in order.
ProviderLines(n) == TxLines(GetProp(Chain(n), "transactions").items, 1)

\* C35: the lines a run writes for a block it serves from the disk tier,
\* from either entry file, are the lines the run that fetched the block from
\* the provider wrote for it, in content and order.
C35_DiskLinesAreFetchedLines ==
    (pc \in {"loop", "done"} /\ call.n \in Blocks
     /\ call.src \in {"remote", "disk-zst", "disk-json"})
    => /\ results[call.n] = Chain(call.n)
       /\ out = ProviderLines(call.n)
       /\ call.lines = Len(ProviderLines(call.n))

\* A later run served block 0 from the compressed entry an earlier run had
\* written, without a provider call, and wrote both of its addresses.
C35_Witness ==
    /\ pc = "done" /\ call.n = 0
    /\ call.src = "disk-zst" /\ call.calls = 0 /\ writeTried = {}
    /\ disk[0].zst.bytes = ZstdCompress(Stringify(Chain(0)))
    /\ out = <<AddrA, AddrB>>

\* The codec encoding of the provider's block n, and its compressed form.
EntryText(n) == Stringify(Chain(n))
EntryFrame(n) == ZstdCompress(EntryText(n))

\* Entry files change only in the step in which the provider resolved the
\* fetch of blockNumber with a block that has its transactions, and only the
\* files of that number change.
WrittenOnlyOnSuccess ==
    [][disk' # disk =>
          /\ cacheDir.ready
          /\ pc = "request" /\ response' = "block"
          /\ IsSuccess(Chain(blockNumber))
          /\ results'[blockNumber] = Chain(blockNumber)
          /\ \A n \in Blocks \ {blockNumber} : disk'[n] = disk[n]]_vars

\* C36 as stated: every entry file the program writes is the complete
\* encoding of the block with the number in its name, and is written only
\* by a successful fetch of that number.
C36_EntryIsCompleteEncoding ==
    /\ [][\A n \in Blocks :
             /\ disk'[n].json # disk[n].json =>
                   disk'[n].json = FileOf(EntryText(n))
             /\ disk'[n].zst # disk[n].zst =>
                   disk'[n].zst = FileOf(EntryFrame(n))]_vars
    /\ WrittenOnlyOnSuccess

\* C36, amended: every entry file the program writes holds the encoding of
\* the block with the number in its name, complete or, after a write that
\* threw part-way, cut short, and a file cut short does not decode; files
\* are written only by a successful fetch of that number, never for an
\* unavailable block, an empty result or a block decoded from disk.
C36_EntryIsEncodingOrCutShort ==
    /\ [][\A n \in Blocks :
             /\ disk'[n].json # disk[n].json =>
                   \/ disk'[n].json = FileOf(EntryText(n))
                   \/ /\ disk'[n].json = FileOf(Truncated(EntryText(n)))
                      /\ ReadLegacy(disk'[n].json) = JsThrow
             /\ disk'[n].zst # disk[n].zst =>
                   \/ disk'[n].zst = FileOf(EntryFrame(n))
                   \/ /\ disk'[n].zst = FileOf(Truncated(EntryFrame(n)))
                      /\ ReadCompressed(disk'[n].zst) = JsThrow]_vars
    /\ WrittenOnlyOnSuccess

\* A run without zstd fetched a block whose write threw part-way: the block
\* was returned and its uncompressed entry holds half of the encoding.
C36_Witness ==
    /\ cacheDir.ready /\ ~cacheDir.zstdAvailable
    /\ call.n \in Blocks /\ call.src = "remote" /\ call.n \in writeTried
    /\ results[call.n] = Chain(call.n)
    /\ disk[call.n].json.exists
    /\ disk[call.n].json.bytes = Truncated(EntryText(call.n))
    /\ disk[call.n].json.bytes # EntryText(call.n)
=============================================================================
